---- MODULE Spec2Model ----
(***************************************************************************)
(* Model of the time-indexed alignment lookup of gls.domain.models:        *)
(* the Alignment dataclass (talk_id, language, segments) and its three     *)
(* queries find_segment_at_time, find_word_at_time and                     *)
(* get_segment_index_at_time.                                              *)
(*                                                                         *)
(* Times are Python floats in the source.  The model measures them in      *)
(* hundredths of a second, as integers: the queries only compare times     *)
(* with <=, and the scaling by 100 preserves the order of every value      *)
(* used (0.55 s is 55, 2.5 s is 250).  Confidences are in hundredths too.  *)
(* NaN and non-numeric field values are outside the model.                 *)
(*                                                                         *)
(* A value of type SegmentAlignment | None, WordAlignment | None or        *)
(* int | None is a record [kind, pos, sub]: kind "segment" refers to the   *)
(* object segments[pos], kind "word" to segments[pos].words[sub] (both     *)
(* positions counted from 1, as TLA+ sequences are), kind "index" carries  *)
(* the zero-based Python int in pos, kind "none" is None, and kind         *)
(* "raised" is an exception leaving the call.                              *)
(***************************************************************************)
EXTENDS Integers, Sequences, FiniteSets, TLC

VARIABLES
    talk_id, language, segments,  \* the fields of the Alignment
    op, time, result,             \* the last call, its time and its return value
    readers,                      \* the calls in progress of concurrent readers
    store,                        \* the talks directory on disk
    request, response,            \* the last HTTP request and its response
    version,                      \* get_audio's TalkVersion between its two steps
    saved,                        \* the Alignment last saved for each (talk_id, language)
    run                           \* the last run of an alignment script

vars == <<talk_id, language, segments, op, time, result,
          readers, store, request, response, version, saved, run>>

\* What the queries of a single caller leave alone besides the Alignment.
others == <<readers, store, request, response, version, saved, run>>

-----------------------------------------------------------------------------
(* Bounds of the model. *)

\* Largest number of spans (segments plus words) of a generated index.
MaxSpans == 3

\* Span endpoints of generated indexes are the even times 0, 2, .., 2*MaxTick;
\* query times run over -1 .. 2*MaxTick+1, so that a query can fall before,
\* on, strictly between and after any endpoints.
MaxTick == 1

-----------------------------------------------------------------------------
(* The data model: models.py, WordAlignment, SegmentAlignment, Alignment. *)

WordAlignment(w, s, e, c) ==
    [word |-> w, start_time |-> s, end_time |-> e, confidence |-> c]

SegmentAlignment(id, txt, s, e, ws) ==
    [segment_id |-> id, text |-> txt, start_time |-> s, end_time |-> e, words |-> ws]

None == [kind |-> "none", pos |-> 0, sub |-> 0]

Raised == [kind |-> "raised", pos |-> 0, sub |-> 0]

SegmentRef(i) == [kind |-> "segment", pos |-> i, sub |-> 0]

WordRef(i, j) == [kind |-> "word", pos |-> i, sub |-> j]

IntValue(n) == [kind |-> "index", pos |-> n, sub |-> 0]

-----------------------------------------------------------------------------
(* Variants of the segment loop with a plausible slip each: the end of the *)
(* interval excluded, the start excluded, and no early return (the last    *)
(* match is kept).                                                         *)
RECURSIVE ScanSegmentsHalfOpen(_, _, _)
ScanSegmentsHalfOpen(segs, t, i) ==
    IF i > Len(segs) THEN None
    ELSE IF segs[i].start_time <= t /\ t < segs[i].end_time THEN SegmentRef(i)
    ELSE ScanSegmentsHalfOpen(segs, t, i + 1)

RECURSIVE ScanSegmentsOpenStart(_, _, _)
ScanSegmentsOpenStart(segs, t, i) ==
    IF i > Len(segs) THEN None
    ELSE IF segs[i].start_time < t /\ t <= segs[i].end_time THEN SegmentRef(i)
    ELSE ScanSegmentsOpenStart(segs, t, i + 1)

RECURSIVE ScanSegmentsLastMatch(_, _, _)
ScanSegmentsLastMatch(segs, t, i) ==
    IF i > Len(segs) THEN None
    ELSE LET later == ScanSegmentsLastMatch(segs, t, i + 1)
         IN  IF later # None THEN later
             ELSE IF segs[i].start_time <= t /\ t <= segs[i].end_time
                  THEN SegmentRef(i) ELSE None

(* Alignment.find_segment_at_time: the for loop over self.segments, from   *)
(* position i on.                                                          *)
RECURSIVE ScanSegments(_, _, _)
ScanSegments(segs, t, i) ==
    IF i > Len(segs) THEN None
    ELSE IF segs[i].start_time <= t /\ t <= segs[i].end_time THEN SegmentRef(i)
    ELSE ScanSegments(segs, t, i + 1)

find_segment_at_time(segs, t) == ScanSegments(segs, t, 1)

(* Variants of the word loop: no early return, and the first word read     *)
(* before the loop (an IndexError on an empty list).                       *)
RECURSIVE ScanWordsLastMatch(_, _, _, _)
ScanWordsLastMatch(segs, t, i, j) ==
    IF j > Len(segs[i].words) THEN None
    ELSE LET later == ScanWordsLastMatch(segs, t, i, j + 1)
         IN  IF later # None THEN later
             ELSE IF segs[i].words[j].start_time <= t /\ t <= segs[i].words[j].end_time
                  THEN WordRef(i, j) ELSE None

RECURSIVE ScanWordsFirstUnchecked(_, _, _, _)
ScanWordsFirstUnchecked(segs, t, i, j) ==
    IF j > Len(segs[i].words) THEN (IF j = 1 THEN Raised ELSE None)
    ELSE IF segs[i].words[j].start_time <= t /\ t <= segs[i].words[j].end_time
         THEN WordRef(i, j)
    ELSE ScanWordsFirstUnchecked(segs, t, i, j + 1)

(* Attribute access segment.words in find_word_at_time: an AttributeError  *)
(* when segment is None, the word loop over segment.words otherwise.       *)
RECURSIVE ScanWords(_, _, _, _)
ScanWords(segs, t, i, j) ==
    IF j > Len(segs[i].words) THEN None
    ELSE IF segs[i].words[j].start_time <= t /\ t <= segs[i].words[j].end_time
         THEN WordRef(i, j)
    ELSE ScanWords(segs, t, i, j + 1)

IterWords(segs, segment, t) ==
    IF segment.kind # "segment" THEN Raised ELSE ScanWords(segs, t, segment.pos, 1)

(* Variants of find_word_at_time: the words of every segment searched,     *)
(* whatever segment is at the time, and the None test left out.            *)
RECURSIVE ScanAllWords(_, _, _)
ScanAllWords(segs, t, i) ==
    IF i > Len(segs) THEN None
    ELSE LET here == ScanWords(segs, t, i, 1)
         IN  IF here # None THEN here ELSE ScanAllWords(segs, t, i + 1)

find_word_at_time_flat(segs, t) == ScanAllWords(segs, t, 1)

find_word_at_time_unchecked(segs, t) ==
    IterWords(segs, find_segment_at_time(segs, t), t)

(* Alignment.find_word_at_time. *)
find_word_at_time(segs, t) ==
    LET segment == find_segment_at_time(segs, t)
    IN  IF segment = None THEN None ELSE IterWords(segs, segment, t)

(* Variant of the enumerate loop counting from one. *)
RECURSIVE ScanEnumerateFromOne(_, _, _)
ScanEnumerateFromOne(segs, t, i) ==
    IF i > Len(segs) THEN None
    ELSE IF segs[i].start_time <= t /\ t <= segs[i].end_time THEN IntValue(i)
    ELSE ScanEnumerateFromOne(segs, t, i + 1)

(* Alignment.get_segment_index_at_time: the loop over                      *)
(* enumerate(self.segments); position i of the model is Python index i-1.  *)
RECURSIVE ScanEnumerate(_, _, _)
ScanEnumerate(segs, t, i) ==
    IF i > Len(segs) THEN None
    ELSE IF segs[i].start_time <= t /\ t <= segs[i].end_time THEN IntValue(i - 1)
    ELSE ScanEnumerate(segs, t, i + 1)

get_segment_index_at_time(segs, t) == ScanEnumerate(segs, t, 1)

-----------------------------------------------------------------------------
(* The indexes and query times the model draws from. *)

SpanTimes == {2 * k : k \in 0..MaxTick}

Intervals == SpanTimes \X SpanTimes

\* A generated index is given by its shape and its intervals: wc[i] is the
\* number of words of segment i, siv[i] the interval of segment i, and wiv
\* the intervals of all the words, segment after segment.
RECURSIVE SumTo(_, _)
SumTo(wc, n) == IF n = 0 THEN 0 ELSE wc[n] + SumTo(wc, n - 1)

\* The shapes with ns segments and at most MaxSpans spans in all.
WordCounts(ns) ==
    {wc \in [1..ns -> 0..MaxSpans] : ns + SumTo(wc, ns) <= MaxSpans}

SegmentIds == <<"seg-000", "seg-001", "seg-002", "seg-003", "seg-004", "seg-005">>

\* A segment's interval and its words' intervals are unrelated: in any
\* order, overlapping or not, start before or after end.
BuildIndex(wc, siv, wiv) ==
    [i \in DOMAIN wc |->
        SegmentAlignment(SegmentIds[i], "s", siv[i][1], siv[i][2],
            [j \in 1..wc[i] |->
                WordAlignment("w", wiv[SumTo(wc, i - 1) + j][1],
                              wiv[SumTo(wc, i - 1) + j][2], 100)])]

\* The scenario of the specification's testable properties.
ScenarioIndex ==
    << SegmentAlignment("seg-000", "Hello world", 0, 250,
                        << WordAlignment("Hello", 0, 50, 99),
                           WordAlignment("world", 60, 120, 95) >>),
       SegmentAlignment("seg-001", "", 250, 500, <<>>) >>

ScenarioTimes == {0, 55, 250, 300, 600}

QueryTimes == (-1 .. (2 * MaxTick + 1)) \cup ScenarioTimes

TalkIds == {"2025-10-58-oaks"}

Languages == {"eng"}

-----------------------------------------------------------------------------
(* The values of the variables that a specification does not use. *)

NoReaders == <<>>

NoStore == [exists |-> FALSE, talks |-> <<>>]

NoRequest == [endpoint |-> "none", talk_id |-> "", language |-> ""]

NoResponse == [status |-> 0]

NoVersion == [kind |-> "none"]

NoSaved == <<>>

NoRun == [script |-> "none"]

-----------------------------------------------------------------------------
(* The state machine: an Alignment is constructed and a query time is     *)
(* chosen; the three queries are then called on it, in any order and any   *)
(* number of times.  op names the last call and result its return value.   *)

Init ==
    /\ talk_id \in TalkIds
    /\ language \in Languages
    /\ \/ segments = ScenarioIndex
       \/ \E ns \in 0..MaxSpans : \E wc \in WordCounts(ns) :
            \E siv \in [1..ns -> Intervals] :
              \E wiv \in [1..SumTo(wc, ns) -> Intervals] :
                segments = BuildIndex(wc, siv, wiv)
    /\ time \in QueryTimes
    /\ op = "none"
    /\ result = None
    /\ readers = NoReaders
    /\ store = NoStore
    /\ request = NoRequest
    /\ response = NoResponse
    /\ version = NoVersion
    /\ saved = NoSaved
    /\ run = NoRun

\* Variant of the call that consumes the list while it scans
\* (self.segments.pop(0) until the match).
FindSegmentAtTimeConsuming ==
    /\ op' = "find_segment_at_time"
    /\ result' = find_segment_at_time(segments, time)
    /\ segments' = IF result'.kind = "segment"
                   THEN SubSeq(segments, result'.pos, Len(segments))
                   ELSE <<>>
    /\ UNCHANGED <<talk_id, language, time>>
    /\ UNCHANGED others

FindSegmentAtTime ==
    /\ op' = "find_segment_at_time"
    /\ result' = find_segment_at_time(segments, time)
    /\ UNCHANGED <<talk_id, language, segments, time>>
    /\ UNCHANGED others

FindWordAtTime ==
    /\ op' = "find_word_at_time"
    /\ result' = find_word_at_time(segments, time)
    /\ UNCHANGED <<talk_id, language, segments, time>>
    /\ UNCHANGED others

GetSegmentIndexAtTime ==
    /\ op' = "get_segment_index_at_time"
    /\ result' = get_segment_index_at_time(segments, time)
    /\ UNCHANGED <<talk_id, language, segments, time>>
    /\ UNCHANGED others

Next ==
    \/ FindSegmentAtTime
    \/ FindWordAtTime
    \/ GetSegmentIndexAtTime

Spec == Init /\ [][Next]_vars

-----------------------------------------------------------------------------
(* Vocabulary of the properties.  These definitions restate the            *)
(* specification's words and do not use the loops above.                   *)

\* t lies in the closed interval [x.start_time, x.end_time] of span x.
InClosedInterval(x, t) == x.start_time <= t /\ t <= x.end_time

\* The positions of the segments whose closed interval contains t.
SegmentsContaining(t) ==
    {i \in 1..Len(segments) : InClosedInterval(segments[i], t)}

\* The positions of the words of segment i whose closed interval contains t.
WordsContaining(i, t) ==
    {j \in 1..Len(segments[i].words) : InClosedInterval(segments[i].words[j], t)}

WellFormed(x) == x.start_time <= x.end_time

-----------------------------------------------------------------------------
\* C1: find_segment_at_time(t) returns not-found exactly when no segment's
\* closed interval [start_time, end_time] contains t, and a segment it
\* returns contains t; so a t before the first segment, after the last one or
\* strictly between two non-contiguous segments yields not-found.
C1_FoundIffContained ==
    op = "find_segment_at_time" =>
        /\ (result = None) <=> (SegmentsContaining(time) = {})
        /\ result # None =>
              /\ result.kind = "segment"
              /\ result.pos \in 1..Len(segments)
              /\ segments[result.pos].start_time <= time
              /\ time <= segments[result.pos].end_time

\* A query strictly between two well-formed, non-contiguous segments has
\* returned not-found.
C1_Witness ==
    /\ op = "find_segment_at_time"
    /\ Len(segments) = 2
    /\ WellFormed(segments[1]) /\ WellFormed(segments[2])
    /\ segments[1].end_time < time /\ time < segments[2].start_time
    /\ result = None

\* C2: first-match-wins: when the closed intervals of two or more segments
\* contain t, find_segment_at_time(t) returns the one with the smallest
\* position in the sequence, whatever the segments' start times or lengths.
C2_FirstMatchWins ==
    (op = "find_segment_at_time" /\ Cardinality(SegmentsContaining(time)) >= 2) =>
        /\ result.kind = "segment"
        /\ result.pos \in SegmentsContaining(time)
        /\ \A k \in SegmentsContaining(time) : result.pos <= k

\* Two segments contain the time, the later one starts earlier and is longer,
\* and the earlier one in the sequence was returned.
C2_Witness ==
    /\ op = "find_segment_at_time"
    /\ Len(segments) = 2
    /\ SegmentsContaining(time) = {1, 2}
    /\ segments[2].start_time < segments[1].start_time
    /\ segments[2].end_time - segments[2].start_time
         > segments[1].end_time - segments[1].start_time
    /\ result = SegmentRef(1)

\* C3 as stated: for any segment s of the index with start_time <= end_time,
\* find_segment_at_time(s.start_time) and find_segment_at_time(s.end_time)
\* both return s itself.
C3_Original ==
    op = "find_segment_at_time" =>
        \A i \in 1..Len(segments) :
            (WellFormed(segments[i])
               /\ time \in {segments[i].start_time, segments[i].end_time}) =>
                  /\ result.kind = "segment"
                  /\ segments[result.pos] = segments[i]

\* C3 as amended: for any segment s with start_time <= end_time,
\* find_segment_at_time(s.start_time) and find_segment_at_time(s.end_time)
\* both return a segment: the first segment in sequence order whose closed
\* interval contains that time, which is s itself when no segment before s in
\* the sequence contains it.
C3_ClosedInterval ==
    op = "find_segment_at_time" =>
        \A i \in 1..Len(segments) :
            (WellFormed(segments[i])
               /\ time \in {segments[i].start_time, segments[i].end_time}) =>
                  /\ result.kind = "segment"
                  /\ result.pos <= i
                  /\ InClosedInterval(segments[result.pos], time)
                  /\ \A k \in 1..(result.pos - 1) : ~InClosedInterval(segments[k], time)
                  /\ (\A k \in 1..(i - 1) : ~InClosedInterval(segments[k], time))
                        => result = SegmentRef(i)

\* The query at the end time of a second segment of positive length, which
\* the first segment does not contain, has returned that second segment.
C3_Witness ==
    /\ op = "find_segment_at_time"
    /\ Len(segments) >= 2
    /\ segments[2].start_time < segments[2].end_time
    /\ time = segments[2].end_time
    /\ ~InClosedInterval(segments[1], time)
    /\ result = SegmentRef(2)

\* C4: get_segment_index_at_time(t) returns not-found exactly when
\* find_segment_at_time(t) does, and an index i it returns satisfies
\* 0 <= i < len(segments) with segments[i] the segment that
\* find_segment_at_time(t) returns.
C4_IndexAgreesWithSegment ==
    op = "get_segment_index_at_time" =>
        /\ (result = None) <=> (find_segment_at_time(segments, time) = None)
        /\ result # None =>
              /\ result.kind = "index"
              /\ 0 <= result.pos /\ result.pos < Len(segments)
              /\ find_segment_at_time(segments, time) = SegmentRef(result.pos + 1)

\* An index other than 0 has been returned.
C4_Witness ==
    /\ op = "get_segment_index_at_time"
    /\ result.kind = "index"
    /\ result.pos >= 1

\* C5: if find_segment_at_time(t) returns not-found then find_word_at_time(t)
\* returns not-found, even when some word of some segment has an interval
\* containing t.
C5_NoSegmentNoWord ==
    (op = "find_word_at_time" /\ find_segment_at_time(segments, time) = None) =>
        result = None

\* No segment contains the time, a word of some segment does, and the word
\* query has returned not-found.
C5_Witness ==
    /\ op = "find_word_at_time"
    /\ SegmentsContaining(time) = {}
    /\ \E i \in 1..Len(segments) : WordsContaining(i, time) # {}
    /\ result = None

\* C6: when find_segment_at_time(t) returns segment s, find_word_at_time(t)
\* returns the first word of s.words, in sequence order, whose closed interval
\* contains t, and not-found when no word of s contains t; it never returns a
\* word of another segment.
C6_FirstWordOfSegment ==
    (op = "find_word_at_time" /\ find_segment_at_time(segments, time).kind = "segment") =>
        LET s == find_segment_at_time(segments, time).pos
        IN  IF WordsContaining(s, time) = {}
            THEN result = None
            ELSE /\ result.kind = "word"
                 /\ result.pos = s
                 /\ result.sub \in WordsContaining(s, time)
                 /\ \A j \in WordsContaining(s, time) : result.sub <= j

\* Two words of the segment at the time contain it and the first was returned.
C6_Witness ==
    /\ op = "find_word_at_time"
    /\ result.kind = "word"
    /\ Cardinality(WordsContaining(result.pos, time)) >= 2
    /\ result.sub = 1

\* C7: no query raises: on every index (empty, non-monotonic, overlapping, or
\* with an interval whose start exceeds its end) and for every time, negative
\* times and times beyond all intervals included, each of the three queries
\* ends with a match of its own type or with not-found, never with an error.
C7_NoQueryRaises ==
    /\ result.kind # "raised"
    /\ op = "none" => result = None
    /\ op = "find_segment_at_time" => result.kind \in {"segment", "none"}
    /\ op = "find_word_at_time" => result.kind \in {"word", "none"}
    /\ op = "get_segment_index_at_time" => result.kind \in {"index", "none"}

\* The word query has returned, at a negative time, on an index whose first
\* segment starts after it ends and whose second segment starts before the
\* first.
C7_Witness ==
    /\ op = "find_word_at_time"
    /\ time < 0
    /\ Len(segments) >= 2
    /\ segments[1].start_time > segments[1].end_time
    /\ segments[2].start_time < segments[1].start_time
    /\ result = None

\* C8: on an index with no segments the three queries return not-found for
\* every t; and when the segment at t has no words, find_word_at_time(t)
\* returns not-found.
C8_EmptySequences ==
    /\ (segments = <<>> /\ op # "none") => result = None
    /\ (op = "find_word_at_time"
          /\ find_segment_at_time(segments, time).kind = "segment"
          /\ segments[find_segment_at_time(segments, time).pos].words = <<>>)
       => result = None

\* The word query has returned on a time inside a segment that has no words.
C8_Witness ==
    /\ op = "find_word_at_time"
    /\ SegmentsContaining(time) # {}
    /\ \A i \in SegmentsContaining(time) : segments[i].words = <<>>
    /\ result = None

\* C9: the scenario of the specification: on [seg-000 (0.0-2.5, words Hello
\* 0.0-0.5 and world 0.6-1.2), seg-001 (2.5-5.0, no words)],
\* find_segment_at_time(2.5) returns seg-000, find_word_at_time(0.55) returns
\* not-found, find_word_at_time(0.0) returns the word Hello,
\* find_segment_at_time(6.0) returns not-found and
\* get_segment_index_at_time(3.0) returns 1.
C9_Scenario ==
    segments = ScenarioIndex =>
        /\ (op = "find_segment_at_time" /\ time = 250) =>
              /\ result.kind = "segment"
              /\ segments[result.pos].segment_id = "seg-000"
        /\ (op = "find_word_at_time" /\ time = 55) => result = None
        /\ (op = "find_word_at_time" /\ time = 0) =>
              /\ result.kind = "word"
              /\ segments[result.pos].words[result.sub].word = "Hello"
        /\ (op = "find_segment_at_time" /\ time = 600) => result = None
        /\ (op = "get_segment_index_at_time" /\ time = 300) => result = IntValue(1)

\* The segment query at 2.5 s has returned on the scenario's index.
C9_Witness ==
    /\ segments = ScenarioIndex
    /\ op = "find_segment_at_time"
    /\ time = 250
    /\ result # None

\* C10: the index is read-only under queries: no call of the three queries
\* changes talk_id, language, the segments sequence or any field of a segment
\* or a word, so after any sequence of calls they are as constructed.
C10_ReadOnly ==
    [][/\ talk_id' = talk_id
       /\ language' = language
       /\ segments' = segments]_vars

\* A query has returned a word on an index of two segments.
C10_Witness ==
    /\ op = "find_word_at_time"
    /\ Len(segments) = 2
    /\ result.kind = "word"
    /\ result.pos = 2

-----------------------------------------------------------------------------
(* The binary search the specification allows in place of the scan: the   *)
(* last segment with start_time <= t, then the test t <= end_time.         *)

\* Segments sorted by start_time ascending, each with start_time <= end_time,
\* and pairwise non-overlapping: a segment ends no later than every later
\* segment starts (a boundary time may be shared).
SortedNonOverlapping ==
    /\ \A i \in 1..Len(segments) : WellFormed(segments[i])
    /\ \A i \in 1..Len(segments) : \A j \in (i + 1)..Len(segments) :
          /\ segments[i].start_time <= segments[j].start_time
          /\ segments[i].end_time <= segments[j].start_time

\* The position of the last segment with start_time <= t, 0 when none.
LastStartingBy(t) ==
    LET S == {i \in 1..Len(segments) : segments[i].start_time <= t}
    IN  IF S = {} THEN 0 ELSE CHOOSE i \in S : \A k \in S : k <= i

\* The position the binary search answers with, 0 for not-found.
BinarySearchPos(t) ==
    IF LastStartingBy(t) = 0 THEN 0
    ELSE IF t <= segments[LastStartingBy(t)].end_time THEN LastStartingBy(t) ELSE 0

\* t is the end_time of one segment and the start_time of a later one.
SharedBoundary(t) ==
    \E i \in 1..Len(segments) : \E j \in (i + 1)..Len(segments) :
        segments[i].end_time = t /\ segments[j].start_time = t

ScanAgreesWithBinarySearch ==
    /\ op = "find_segment_at_time" =>
          result = IF BinarySearchPos(time) = 0 THEN None
                   ELSE SegmentRef(BinarySearchPos(time))
    /\ op = "get_segment_index_at_time" =>
          result = IF BinarySearchPos(time) = 0 THEN None
                   ELSE IntValue(BinarySearchPos(time) - 1)

\* C12 as stated: on an index sorted by start_time and pairwise
\* non-overlapping, where adjacent segments may share a boundary time, the
\* binary search over start_time returns the same segment or not-found as
\* find_segment_at_time / get_segment_index_at_time for every t.
C12_Original == SortedNonOverlapping => ScanAgreesWithBinarySearch

\* C12 as amended: on such an index the binary search returns the same
\* segment or not-found as the linear scan for every t that is not a boundary
\* shared by two segments (the end_time of one and the start_time of a later
\* one); at a shared boundary the scan returns the earlier segment.
C12_BinarySearchOffBoundaries ==
    /\ (SortedNonOverlapping /\ ~SharedBoundary(time)) => ScanAgreesWithBinarySearch
    /\ (SortedNonOverlapping /\ SharedBoundary(time) /\ op = "find_segment_at_time") =>
          /\ result.kind = "segment"
          /\ result.pos <= BinarySearchPos(time)
          /\ segments[result.pos].end_time = time

\* The scan has returned the second of two segments that share a boundary,
\* at a time after that boundary.
C12_Witness ==
    /\ op = "find_segment_at_time"
    /\ Len(segments) = 2
    /\ SortedNonOverlapping
    /\ segments[1].end_time = segments[2].start_time
    /\ time > segments[2].start_time
    /\ result = SegmentRef(2)

-----------------------------------------------------------------------------
(* Concurrent readers of one Alignment.  Each reader runs the queries of   *)
(* models.py one loop iteration at a time: pc is the loop it is in, i the  *)
(* position of the segment at hand, j the position of the word at hand,    *)
(* and result the value of its last call.  The readers query the time of   *)
(* the state, each with the operations it chooses.                         *)

Readers == {"r1", "r2"}

QueryOps == {"find_segment_at_time", "find_word_at_time", "get_segment_index_at_time"}

IdleReader == [pc |-> "idle", op |-> "none", i |-> 0, j |-> 0, result |-> None]

Returned(me, value) ==
    [pc |-> "idle", op |-> me.op, i |-> 0, j |-> 0, result |-> value]

InitReaders ==
    /\ talk_id \in TalkIds
    /\ language \in Languages
    /\ \E ns \in 0..(MaxSpans - 1) :
         \E wc \in {w \in WordCounts(ns) : ns + SumTo(w, ns) <= MaxSpans - 1} :
           \E siv \in [1..ns -> Intervals] :
             \E wiv \in [1..SumTo(wc, ns) -> Intervals] :
               segments = BuildIndex(wc, siv, wiv)
    /\ time \in -1 .. (2 * MaxTick + 1)
    /\ op = "none"
    /\ result = None
    /\ readers = [r \in Readers |-> IdleReader]
    /\ store = NoStore
    /\ request = NoRequest
    /\ response = NoResponse
    /\ version = NoVersion
    /\ saved = NoSaved
    /\ run = NoRun

ReaderFrame == UNCHANGED <<talk_id, language, segments, op, time, result,
                           store, request, response, version, saved, run>>

\* A reader enters one of the three methods.
ReaderCall(r) ==
    /\ readers[r].pc = "idle"
    /\ \E o \in QueryOps :
         readers' = [readers EXCEPT ![r] =
             [pc |-> IF o = "get_segment_index_at_time" THEN "enumerate" ELSE "segments",
              op |-> o, i |-> 1, j |-> 0, result |-> None]]
    /\ ReaderFrame

\* Variant of the segment loop that consumes the shared list:
\* self.segments.pop(0) on a segment that does not match.
ReaderStepSegmentsConsuming(r) ==
    /\ readers[r].pc = "segments"
    /\ LET me == readers[r]
       IN  IF segments = <<>>
           THEN /\ readers' = [readers EXCEPT ![r] = Returned(me, None)]
                /\ segments' = segments
           ELSE IF segments[1].start_time <= time /\ time <= segments[1].end_time
           THEN /\ readers' = [readers EXCEPT ![r] =
                       IF me.op = "find_segment_at_time"
                       THEN Returned(me, SegmentRef(1))
                       ELSE [me EXCEPT !.pc = "words", !.i = 1, !.j = 1]]
                /\ segments' = segments
           ELSE /\ readers' = readers
                /\ segments' = Tail(segments)
    /\ UNCHANGED <<talk_id, language, op, time, result,
                   store, request, response, version, saved, run>>

\* One iteration of the loop of find_segment_at_time, run by
\* find_segment_at_time itself or on behalf of find_word_at_time, which goes
\* on to the words of the segment found and returns None when there is none.
ReaderStepSegments(r) ==
    /\ readers[r].pc = "segments"
    /\ LET me == readers[r]
       IN  readers' = [readers EXCEPT ![r] =
             IF me.i > Len(segments) THEN Returned(me, None)
             ELSE IF segments[me.i].start_time <= time /\ time <= segments[me.i].end_time
                  THEN IF me.op = "find_segment_at_time"
                       THEN Returned(me, SegmentRef(me.i))
                       ELSE [me EXCEPT !.pc = "words", !.j = 1]
             ELSE [me EXCEPT !.i = me.i + 1]]
    /\ ReaderFrame

\* One iteration of the word loop of find_word_at_time.
ReaderStepWords(r) ==
    /\ readers[r].pc = "words"
    /\ LET me == readers[r]
           words == segments[me.i].words
       IN  readers' = [readers EXCEPT ![r] =
             IF me.j > Len(words) THEN Returned(me, None)
             ELSE IF words[me.j].start_time <= time /\ time <= words[me.j].end_time
                  THEN Returned(me, WordRef(me.i, me.j))
             ELSE [me EXCEPT !.j = me.j + 1]]
    /\ ReaderFrame

\* One iteration of the loop of get_segment_index_at_time.
ReaderStepEnumerate(r) ==
    /\ readers[r].pc = "enumerate"
    /\ LET me == readers[r]
       IN  readers' = [readers EXCEPT ![r] =
             IF me.i > Len(segments) THEN Returned(me, None)
             ELSE IF segments[me.i].start_time <= time /\ time <= segments[me.i].end_time
                  THEN Returned(me, IntValue(me.i - 1))
             ELSE [me EXCEPT !.i = me.i + 1]]
    /\ ReaderFrame

NextReaders ==
    \E r \in Readers :
        \/ ReaderCall(r)
        \/ ReaderStepSegments(r)
        \/ ReaderStepWords(r)
        \/ ReaderStepEnumerate(r)

SpecReaders == InitReaders /\ [][NextReaders]_vars

\* What a call of operation o returns when it runs alone on the index.
AloneResult(o) ==
    IF o = "find_segment_at_time" THEN find_segment_at_time(segments, time)
    ELSE IF o = "find_word_at_time" THEN find_word_at_time(segments, time)
    ELSE get_segment_index_at_time(segments, time)

\* C11: one constructed index shared by concurrent readers without locking:
\* under every interleaving of the readers' loop iterations, each call returns
\* what it would return if run alone on that index.
C11_ReadersUndisturbed ==
    \A r \in Readers :
        (readers[r].pc = "idle" /\ readers[r].op # "none") =>
            readers[r].result = AloneResult(readers[r].op)

\* Reader r1 has returned the second segment while reader r2 is in the middle
\* of the loop of get_segment_index_at_time.
C11_Witness ==
    /\ readers["r1"].pc = "idle"
    /\ readers["r1"].result = SegmentRef(2)
    /\ readers["r2"].pc = "enumerate"
    /\ readers["r2"].i = 2

-----------------------------------------------------------------------------
(* The talks directory of talk_storage.py:                                 *)
(*     talks_dir/{talk_id}/{lang}/ *.mp3, *.txt, alignment.json            *)
(* store.exists says whether talks_dir exists; store.talks maps the name   *)
(* of each talk directory to its language directories, and each of those   *)
(* to its files: txt and mp3 are the list (empty or of one element) of the *)
(* content of the first regular file with that suffix, alignment is the    *)
(* content of alignment.json.                                              *)
(*                                                                         *)
(* The text of alignment.json is "absent" (no such file), "invalid" (text  *)
(* that json.loads rejects) or "json" with the value json.loads returns:   *)
(* a value of type "object" (a dict; members is the function from its keys *)
(* to their values) or of another type ("array").  A JSON object inside    *)
(* the file is a function from the keys it has to their values.            *)

AbsentFile == [kind |-> "absent"]

InvalidJson == [kind |-> "invalid"]

JsonArray == [kind |-> "json", value |-> [type |-> "array", members |-> <<>>]]

JsonObject(members) ==
    [kind |-> "json", value |-> [type |-> "object", members |-> members]]

LangDir(txt, mp3, alignment) == [txt |-> txt, mp3 |-> mp3, alignment |-> alignment]

\* pathlib: (talks_dir / talk_id / lang / "alignment.json").exists() and
\* read_text(): the file at that path, AbsentFile when any part is missing.
AlignmentFile(st, tid, lang) ==
    IF st.exists /\ tid \in DOMAIN st.talks /\ lang \in DOMAIN st.talks[tid]
    THEN st.talks[tid][lang].alignment
    ELSE AbsentFile

\* dict.get(key, []) of _parse_alignment.
GetOrEmpty(d, key) == IF key \in DOMAIN d THEN d[key] ELSE <<>>

\* The outcome of a piece of _parse_alignment: a value, or KeyError.
Parsed(v) == [ok |-> TRUE, value |-> v]

KeyError == [ok |-> FALSE, value |-> <<>>]

\* Variant of the word comprehension that reads w["confidence"].
RECURSIVE ParseWordsConfidenceRequired(_, _)
ParseWordsConfidenceRequired(ws, j) ==
    IF j > Len(ws) THEN Parsed(<<>>)
    ELSE IF ~({"word", "start_time", "end_time", "confidence"} \subseteq DOMAIN ws[j])
         THEN KeyError
    ELSE LET rest == ParseWordsConfidenceRequired(ws, j + 1)
         IN  IF ~rest.ok THEN KeyError
             ELSE Parsed(<<WordAlignment(ws[j].word, ws[j].start_time,
                                         ws[j].end_time, ws[j].confidence)>>
                         \o rest.value)

\* _parse_alignment, the list comprehension over seg_data.get("words", []):
\* w["word"], w["start_time"], w["end_time"], w.get("confidence", 1.0).
RECURSIVE ParseWords(_, _)
ParseWords(ws, j) ==
    IF j > Len(ws) THEN Parsed(<<>>)
    ELSE IF ~({"word", "start_time", "end_time"} \subseteq DOMAIN ws[j]) THEN KeyError
    ELSE LET rest == ParseWords(ws, j + 1)
         IN  IF ~rest.ok THEN KeyError
             ELSE Parsed(<<WordAlignment(ws[j].word, ws[j].start_time, ws[j].end_time,
                               IF "confidence" \in DOMAIN ws[j]
                               THEN ws[j].confidence ELSE 100)>>
                         \o rest.value)

\* Variant of the segment loop with segments.insert(0, ...) for append.
RECURSIVE ParseSegmentsPrepending(_, _)
ParseSegmentsPrepending(sds, i) ==
    IF i > Len(sds) THEN Parsed(<<>>)
    ELSE LET words == ParseWords(GetOrEmpty(sds[i], "words"), 1)
             rest == ParseSegmentsPrepending(sds, i + 1)
         IN  IF ~words.ok
                  \/ ~({"segment_id", "text", "start_time", "end_time"}
                          \subseteq DOMAIN sds[i])
                  \/ ~rest.ok
             THEN KeyError
             ELSE Parsed(rest.value \o
                         <<SegmentAlignment(sds[i].segment_id, sds[i].text,
                                            sds[i].start_time, sds[i].end_time,
                                            words.value)>>)

\* _parse_alignment, the loop over data.get("segments", []).
RECURSIVE ParseSegments(_, _)
ParseSegments(sds, i) ==
    IF i > Len(sds) THEN Parsed(<<>>)
    ELSE LET words == ParseWords(GetOrEmpty(sds[i], "words"), 1)
             rest == ParseSegments(sds, i + 1)
         IN  IF ~words.ok
                  \/ ~({"segment_id", "text", "start_time", "end_time"}
                          \subseteq DOMAIN sds[i])
                  \/ ~rest.ok
             THEN KeyError
             ELSE Parsed(<<SegmentAlignment(sds[i].segment_id, sds[i].text,
                                            sds[i].start_time, sds[i].end_time,
                                            words.value)>>
                         \o rest.value)

\* FileAlignmentRepository._parse_alignment on a dict.
parse_alignment(data) == ParseSegments(GetOrEmpty(data, "segments"), 1)

\* FileAlignmentRepository.get_alignment: what it returns ("none" for None,
\* "alignment" with the segments of the Alignment) or that it raises:
\* data.get on a value that is no dict is an AttributeError, which the
\* except clause (json.JSONDecodeError, KeyError) does not catch.
AlignmentResult(kind, segs) == [kind |-> kind, segments |-> segs]

get_alignment(st, tid, lang) ==
    LET file == AlignmentFile(st, tid, lang)
    IN  IF file.kind = "absent" THEN AlignmentResult("none", <<>>)
        ELSE IF file.kind = "invalid" THEN AlignmentResult("none", <<>>)
        ELSE IF file.value.type # "object" THEN AlignmentResult("raised", <<>>)
        ELSE LET parsed == parse_alignment(file.value.members)
             IN  IF parsed.ok THEN AlignmentResult("alignment", parsed.value)
                 ELSE AlignmentResult("none", <<>>)

\* FileAlignmentRepository.save_alignment: the dict it writes for an
\* Alignment (generated_at is the time of the call).
AlignmentData(tid, lang, segs) ==
    [talk_id |-> tid, language |-> lang, version |-> "1.0", generated_at |-> "now",
     segments |->
        [i \in DOMAIN segs |->
            [segment_id |-> segs[i].segment_id, text |-> segs[i].text,
             start_time |-> segs[i].start_time, end_time |-> segs[i].end_time,
             words |->
                [j \in DOMAIN segs[i].words |->
                    [word |-> segs[i].words[j].word,
                     start_time |-> segs[i].words[j].start_time,
                     end_time |-> segs[i].words[j].end_time,
                     confidence |-> segs[i].words[j].confidence]]]]]

-----------------------------------------------------------------------------
(* The alignment files the model draws from: the file of a generated index *)
(* or of the scenario, whole or with one key missing from the top-level    *)
(* object, from one segment or from one word; a file that is no JSON text; *)
(* a JSON array; no file, no language directory, no talks directory.       *)

SegmentKeys == {"segment_id", "text", "start_time", "end_time", "words"}

WordKeys == {"word", "start_time", "end_time", "confidence"}

NoDefect == [kind |-> "none", i |-> 0, j |-> 0, key |-> ""]

Defects(segs) ==
    {NoDefect, [kind |-> "top", i |-> 0, j |-> 0, key |-> "segments"]}
    \cup {[kind |-> "segment", i |-> i, j |-> 0, key |-> k] :
             i \in DOMAIN segs, k \in SegmentKeys}
    \cup UNION {{[kind |-> "word", i |-> i, j |-> j, key |-> k] :
                    j \in DOMAIN segs[i].words, k \in WordKeys} :
                i \in DOMAIN segs}

WithoutKey(d, key) == [k \in DOMAIN d \ {key} |-> d[k]]

Defective(data, d) ==
    CASE d.kind = "none" -> data
      [] d.kind = "top" -> WithoutKey(data, d.key)
      [] d.kind = "segment" ->
            [data EXCEPT !.segments[d.i] = WithoutKey(@, d.key)]
      [] d.kind = "word" ->
            [data EXCEPT !.segments[d.i].words[d.j] = WithoutKey(@, d.key)]

\* A talks directory with the one talk tid in the one language lang, with
\* text, audio and the given alignment.json.
OneTalkStore(tid, lang, file) ==
    [exists |-> TRUE,
     talks |-> (tid :> (lang :> LangDir(<<"Hello world">>, <<"talk.mp3">>, file)))]

InitRepo ==
    /\ talk_id \in TalkIds
    /\ language \in Languages
    /\ segments = <<>>
    /\ time = 0
    /\ op = "none"
    /\ result = None
    /\ readers = NoReaders
    /\ request = NoRequest
    /\ response = NoResponse
    /\ version = NoVersion
    /\ saved = NoSaved
    /\ run = NoRun
    /\ \/ store = NoStore
       \/ store = [exists |-> TRUE, talks |-> (talk_id :> <<>>)]
       \/ \E file \in {AbsentFile, InvalidJson, JsonArray} :
             store = OneTalkStore(talk_id, language, file)
       \/ \E d \in Defects(ScenarioIndex) :
             store = OneTalkStore(talk_id, language,
                        JsonObject(Defective(
                            AlignmentData(talk_id, language, ScenarioIndex), d)))
       \/ \E ns \in 0..MaxSpans : \E wc \in WordCounts(ns) :
            \E siv \in [1..ns -> Intervals] :
              \E wiv \in [1..SumTo(wc, ns) -> Intervals] :
                \E d \in Defects(BuildIndex(wc, siv, wiv)) :
                  store = OneTalkStore(talk_id, language,
                             JsonObject(Defective(
                                 AlignmentData(talk_id, language,
                                               BuildIndex(wc, siv, wiv)), d)))

\* A call of FileAlignmentRepository.get_alignment(talk_id, language); the
\* Alignment it returns becomes the index of the state.
RepoGetAlignment ==
    /\ op' = "get_alignment"
    /\ LET r == get_alignment(store, talk_id, language)
       IN  /\ result' = [kind |-> r.kind, pos |-> 0, sub |-> 0]
           /\ segments' = IF r.kind = "alignment" THEN r.segments ELSE segments
    /\ UNCHANGED <<talk_id, language, time>>
    /\ UNCHANGED others

NextRepo == RepoGetAlignment

SpecRepo == InitRepo /\ [][NextRepo]_vars

-----------------------------------------------------------------------------
(* Vocabulary of the properties of get_alignment: the alignment.json that  *)
(* the call reads, as the file states it.                                  *)

TheFile == AlignmentFile(store, talk_id, language)

FileIsObject == TheFile.kind = "json" /\ TheFile.value.type = "object"

\* The segments the file lists, none when it has no "segments" key.
FileSegments ==
    IF "segments" \in DOMAIN TheFile.value.members
    THEN TheFile.value.members.segments ELSE <<>>

\* The words the file lists for segment i, none when it has no "words" key.
FileWords(i) ==
    IF "words" \in DOMAIN FileSegments[i] THEN FileSegments[i].words ELSE <<>>

\* Every segment of the file has segment_id, text, start_time and end_time,
\* and every word has word, start_time and end_time.
RequiredKeysPresent ==
    \A i \in DOMAIN FileSegments :
        /\ {"segment_id", "text", "start_time", "end_time"} \subseteq DOMAIN FileSegments[i]
        /\ \A j \in DOMAIN FileWords(i) :
              {"word", "start_time", "end_time"} \subseteq DOMAIN FileWords(i)[j]

SomeWordLacksConfidence ==
    \E i \in DOMAIN FileSegments : \E j \in DOMAIN FileWords(i) :
        "confidence" \notin DOMAIN FileWords(i)[j]

\* C13: parsing an alignment file gives confidence 1.0 to every word that has
\* no confidence field and keeps the stored confidence of every word that has
\* one; a word without a confidence field never makes the load fail.
C13_ConfidenceDefault ==
    (op = "get_alignment" /\ FileIsObject /\ RequiredKeysPresent) =>
        /\ result.kind = "alignment"
        /\ DOMAIN segments = DOMAIN FileSegments
        /\ \A i \in DOMAIN segments :
              /\ DOMAIN segments[i].words = DOMAIN FileWords(i)
              /\ \A j \in DOMAIN segments[i].words :
                    segments[i].words[j].confidence =
                        IF "confidence" \in DOMAIN FileWords(i)[j]
                        THEN FileWords(i)[j].confidence ELSE 100

\* A file with a word without confidence and a word with a confidence other
\* than 1.0 has been loaded.
C13_Witness ==
    /\ op = "get_alignment"
    /\ result.kind = "alignment"
    /\ FileIsObject
    /\ SomeWordLacksConfidence
    /\ \E i \in DOMAIN segments : \E j \in DOMAIN segments[i].words :
          segments[i].words[j].confidence # 100

\* C14: construction does not re-sort, drop or validate: the Alignment that
\* get_alignment returns holds exactly the segments of the file in file order,
\* and each segment exactly its words in file order, also when the file's
\* segments are non-monotonic or overlapping.
C14_FileOrderKept ==
    (op = "get_alignment" /\ result.kind = "alignment") =>
        /\ FileIsObject
        /\ DOMAIN segments = DOMAIN FileSegments
        /\ \A i \in DOMAIN segments :
              /\ segments[i].segment_id = FileSegments[i].segment_id
              /\ segments[i].text = FileSegments[i].text
              /\ segments[i].start_time = FileSegments[i].start_time
              /\ segments[i].end_time = FileSegments[i].end_time
              /\ DOMAIN segments[i].words = DOMAIN FileWords(i)
              /\ \A j \in DOMAIN segments[i].words :
                    /\ segments[i].words[j].word = FileWords(i)[j].word
                    /\ segments[i].words[j].start_time = FileWords(i)[j].start_time
                    /\ segments[i].words[j].end_time = FileWords(i)[j].end_time

\* A file whose second segment starts before its first and overlaps it has
\* been loaded.
C14_Witness ==
    /\ op = "get_alignment"
    /\ result.kind = "alignment"
    /\ Len(segments) = 2
    /\ segments[2].start_time < segments[1].start_time
    /\ segments[2].end_time >= segments[1].start_time
    /\ segments[1].end_time >= segments[1].start_time

\* C15: every Alignment that get_alignment returns is validated data: each
\* segment and each word satisfies 0 <= start_time <= end_time, each word's
\* confidence lies in [0, 1], and the segment_ids are pairwise distinct.
C15_Validated ==
    (op = "get_alignment" /\ result.kind = "alignment") =>
        /\ \A i \in DOMAIN segments :
              /\ 0 <= segments[i].start_time
              /\ segments[i].start_time <= segments[i].end_time
              /\ \A j \in DOMAIN segments[i].words :
                    /\ 0 <= segments[i].words[j].start_time
                    /\ segments[i].words[j].start_time <= segments[i].words[j].end_time
                    /\ 0 <= segments[i].words[j].confidence
                    /\ segments[i].words[j].confidence <= 100
        /\ \A i \in DOMAIN segments : \A k \in DOMAIN segments :
              segments[i].segment_id = segments[k].segment_id => i = k

\* C16: get_alignment never raises on a bad alignment file: it returns None
\* when alignment.json is absent, when its content is not valid JSON, and
\* when a segment or word lacks a required key, and an Alignment otherwise.
C16_NeverRaises ==
    op = "get_alignment" =>
        /\ result.kind \in {"none", "alignment"}
        /\ result.kind = "none" <=>
              \/ TheFile.kind \in {"absent", "invalid"}
              \/ FileIsObject /\ ~RequiredKeysPresent

-----------------------------------------------------------------------------
(* Names.  A name (a language code, the name of a directory) is a string;  *)
(* Spelling lists its characters, and str.lower, str.startswith,           *)
(* str.title and the regular expressions of talk_storage.py work on the    *)
(* characters.                                                             *)

UpperCaseLetters ==
    <<"A", "B", "C", "D", "E", "F", "G", "H", "I", "J", "K", "L", "M",
      "N", "O", "P", "Q", "R", "S", "T", "U", "V", "W", "X", "Y", "Z">>

LowerCaseLetters ==
    <<"a", "b", "c", "d", "e", "f", "g", "h", "i", "j", "k", "l", "m",
      "n", "o", "p", "q", "r", "s", "t", "u", "v", "w", "x", "y", "z">>

DecimalDigits == <<"0", "1", "2", "3", "4", "5", "6", "7", "8", "9">>

Spelling ==
    ("eng" :> <<"e", "n", "g">>) @@ ("zhs" :> <<"z", "h", "s">>)
    @@ ("zht" :> <<"z", "h", "t">>) @@ ("ces" :> <<"c", "e", "s">>)
    @@ ("spa" :> <<"s", "p", "a">>) @@ ("rus" :> <<"r", "u", "s">>)
    @@ ("por" :> <<"p", "o", "r">>) @@ ("fra" :> <<"f", "r", "a">>)
    @@ ("deu" :> <<"d", "e", "u">>) @@ ("kor" :> <<"k", "o", "r">>)
    @@ ("jpn" :> <<"j", "p", "n">>)
    @@ ("ENG" :> <<"E", "N", "G">>) @@ ("xx" :> <<"x", "x">>)
    @@ ("xyz" :> <<"x", "y", "z">>)
    @@ ("2025-10-58-oaks" :>
           <<"2", "0", "2", "5", "-", "1", "0", "-", "5", "8", "-",
             "o", "a", "k", "s">>)
    @@ ("2024-04-12-holland" :>
           <<"2", "0", "2", "4", "-", "0", "4", "-", "1", "2", "-",
             "h", "o", "l", "l", "a", "n", "d">>)
    @@ ("2025-13-01-smith" :>
           <<"2", "0", "2", "5", "-", "1", "3", "-", "0", "1", "-",
             "s", "m", "i", "t", "h">>)
    @@ (".git" :> <<".", "g", "i", "t">>)
    @@ ("notes" :> <<"n", "o", "t", "e", "s">>)

IsUpper(c) == \E k \in DOMAIN UpperCaseLetters : UpperCaseLetters[k] = c

IsLower(c) == \E k \in DOMAIN LowerCaseLetters : LowerCaseLetters[k] = c

IsDigit(c) == \E k \in DOMAIN DecimalDigits : DecimalDigits[k] = c

LowerChar(c) ==
    IF IsUpper(c)
    THEN LowerCaseLetters[CHOOSE k \in DOMAIN UpperCaseLetters : UpperCaseLetters[k] = c]
    ELSE c

UpperChar(c) ==
    IF IsLower(c)
    THEN UpperCaseLetters[CHOOSE k \in DOMAIN LowerCaseLetters : LowerCaseLetters[k] = c]
    ELSE c

\* int() of one decimal digit.
DigitValue(c) == (CHOOSE k \in DOMAIN DecimalDigits : DecimalDigits[k] = c) - 1

\* str.lower.
str_lower(cs) == [k \in DOMAIN cs |-> LowerChar(cs[k])]

\* str.startswith(".").
StartsWithDot(cs) == Len(cs) >= 1 /\ cs[1] = "."

\* str.title: a letter that follows a letter is lower-cased, any other
\* letter is upper-cased.
str_title(cs) ==
    [k \in DOMAIN cs |->
        IF k > 1 /\ (IsUpper(cs[k - 1]) \/ IsLower(cs[k - 1]))
        THEN LowerChar(cs[k]) ELSE UpperChar(cs[k])]

\* str.replace("-", " ").
ReplaceDashes(cs) == [k \in DOMAIN cs |-> IF cs[k] = "-" THEN " " ELSE cs[k]]

-----------------------------------------------------------------------------
(* Language of models.py. *)

LanguageValues ==
    {"eng", "zhs", "zht", "ces", "spa", "rus", "por", "fra", "deu", "kor", "jpn"}

ValueError == [ok |-> FALSE, value |-> ""]

\* Variant of from_code that compares the code as it is (no lower()).
FromCodeCharsCaseSensitive(cs) ==
    LET matching == {lang \in LanguageValues : Spelling[lang] = cs}
    IN  IF matching = {} THEN ValueError
        ELSE [ok |-> TRUE, value |-> CHOOSE lang \in matching : TRUE]

\* Language.from_code on the characters of a code: the Language whose
\* value is code.lower(), ValueError when there is none.
FromCodeChars(cs) ==
    LET code_lower == str_lower(cs)
        matching == {lang \in LanguageValues : Spelling[lang] = code_lower}
    IN  IF matching = {} THEN ValueError
        ELSE [ok |-> TRUE, value |-> CHOOSE lang \in matching : TRUE]

\* FromCodeChars of each name of the model, computed once.
FromCodeOf == [code \in DOMAIN Spelling |-> FromCodeChars(Spelling[code])]

\* Language.from_code
from_code(code) == FromCodeOf[code]

-----------------------------------------------------------------------------
(* FileTalkRepository.  A path is the language directory and the suffix of *)
(* the file in it; the directories of the model hold directories and       *)
(* regular files only, and at most one file of each suffix.                *)

\* The content of a text file that is not UTF-8.
Undecodable == "<bytes that are not UTF-8>"

Path(tid, dir, suffix) == [talk_id |-> tid, dir |-> dir, suffix |-> suffix]

NoPath == [talk_id |-> "", dir |-> "", suffix |-> ""]

\* (talks_dir / talk_id).exists()
TalkDirExists(st, tid) == st.exists /\ tid \in DOMAIN st.talks

\* (talks_dir / talk_id / dir).exists()
LangDirExists(st, tid, dir) == TalkDirExists(st, tid) /\ dir \in DOMAIN st.talks[tid]

\* The files of a language directory with the suffix.
FilesWithSuffix(st, tid, dir, suffix) ==
    IF suffix = ".txt" THEN st.talks[tid][dir].txt ELSE st.talks[tid][dir].mp3

\* FileTalkRepository._find_file: the path of the first file with the
\* suffix, NoPath (None) when the directory or such a file is missing.
find_file(st, tid, dir, suffix) ==
    IF ~LangDirExists(st, tid, dir) THEN NoPath
    ELSE IF FilesWithSuffix(st, tid, dir, suffix) = <<>> THEN NoPath
    ELSE Path(tid, dir, suffix)

\* Path.exists() of a path that _find_file or get_version built.
PathExists(st, path) ==
    /\ LangDirExists(st, path.talk_id, path.dir)
    /\ IF path.suffix = "alignment.json"
       THEN st.talks[path.talk_id][path.dir].alignment.kind # "absent"
       ELSE FilesWithSuffix(st, path.talk_id, path.dir, path.suffix) # <<>>

\* FileTalkRepository.get_version: NoVersion (None), the TalkVersion, or
\* "raised" when read_text(encoding="utf-8") raises UnicodeDecodeError.
get_version(st, tid, lang) ==
    IF ~LangDirExists(st, tid, lang) THEN NoVersion
    ELSE IF find_file(st, tid, lang, ".txt") = NoPath
            \/ find_file(st, tid, lang, ".mp3") = NoPath THEN NoVersion
    ELSE IF st.talks[tid][lang].txt[1] = Undecodable THEN [kind |-> "raised"]
    ELSE [kind |-> "found", talk_id |-> tid, language |-> lang,
          text_content |-> st.talks[tid][lang].txt[1],
          audio_path |-> find_file(st, tid, lang, ".mp3"),
          text_path |-> find_file(st, tid, lang, ".txt"),
          alignment_path |->
              IF PathExists(st, Path(tid, lang, "alignment.json"))
              THEN Path(tid, lang, "alignment.json") ELSE NoPath]

\* FileAlignmentRepository.has_alignment.
has_alignment(st, tid, lang) == PathExists(st, Path(tid, lang, "alignment.json"))

-----------------------------------------------------------------------------
(* The playback endpoints of playback.py.  response is the HTTP response   *)
(* of the last request: its status and its body; an exception that is no   *)
(* HTTPException gives the framework's 500.                                *)

HTTPException(status_code, detail) ==
    [status |-> status_code, body |-> [detail |-> detail]]

InternalServerError == [status |-> 500, body |-> [detail |-> "Internal Server Error"]]

\* FileResponse(path=audio_path, media_type="audio/mpeg",
\*              filename=f"{talk_id}_{language}.mp3")
FileResponse(path, tid, code) ==
    [status |-> 200,
     body |-> [path |-> path, media_type |-> "audio/mpeg",
               filename |-> <<tid, "_", code, ".mp3">>]]

\* The WordAlignmentResponse list of a segment.
WordResponses(ws) ==
    [j \in DOMAIN ws |->
        [word |-> ws[j].word, start_time |-> ws[j].start_time,
         end_time |-> ws[j].end_time, confidence |-> ws[j].confidence]]

\* The SegmentAlignmentResponse list of an Alignment.
SegmentResponses(segs) ==
    [i \in DOMAIN segs |->
        [segment_id |-> segs[i].segment_id, text |-> segs[i].text,
         start_time |-> segs[i].start_time, end_time |-> segs[i].end_time,
         words |-> WordResponses(segs[i].words)]]

\* Variant of the alignment handler that tests "if not alignment.segments".
playback_get_alignment_empty_is_missing(st, tid, code) ==
    LET lang == from_code(code)
        alignment == get_alignment(st, tid, lang.value)
    IN  IF ~lang.ok THEN HTTPException(400, "Unknown language code")
        ELSE IF alignment.kind = "raised" THEN InternalServerError
        ELSE IF alignment.kind = "none" \/ alignment.segments = <<>>
             THEN HTTPException(404, "Alignment not yet generated")
        ELSE [status |-> 200,
              body |-> [talk_id |-> tid, language |-> code,
                        segments |-> SegmentResponses(alignment.segments)]]

\* playback.get_alignment: the response to GET /playback/alignment.
playback_get_alignment(st, tid, code) ==
    LET lang == from_code(code)
        alignment == get_alignment(st, tid, lang.value)
    IN  IF ~lang.ok THEN HTTPException(400, "Unknown language code")
        ELSE IF alignment.kind = "raised" THEN InternalServerError
        ELSE IF alignment.kind = "none"
             THEN HTTPException(404, "Alignment not yet generated")
        ELSE [status |-> 200,
              body |-> [talk_id |-> tid, language |-> code,
                        segments |-> SegmentResponses(alignment.segments)]]

\* playback.get_text: the response to GET /playback/text.
playback_get_text(st, tid, code) ==
    LET lang == from_code(code)
        v == get_version(st, tid, lang.value)
    IN  IF ~lang.ok THEN HTTPException(400, "Unknown language code")
        ELSE IF v.kind = "raised" THEN InternalServerError
        ELSE IF v.kind = "none" THEN HTTPException(404, "Talk not found in language")
        ELSE [status |-> 200,
              body |-> [talk_id |-> tid, language |-> code,
                        text_content |-> v.text_content,
                        has_alignment |-> has_alignment(st, tid, lang.value)]]

-----------------------------------------------------------------------------
(* The playback endpoints on a talks directory with at most one talk in at *)
(* most one language directory.  GET /playback/audio takes two steps, the  *)
(* call of get_version and the test audio_path.exists(), and the audio     *)
(* file can be removed from the disk between them; removals at any other   *)
(* moment are covered by the initial directories, which come with and      *)
(* without each file.                                                      *)

PlaybackTalkIds == {"2025-10-58-oaks", "2024-04-12-holland"}

LanguageCodes == {"eng", "ENG", "spa", "xx"}

LangDirNames == {"eng", "ENG"}

PlaybackAlignmentFiles(tid, lang) ==
    {AbsentFile, InvalidJson, JsonArray}
    \cup {JsonObject(Defective(AlignmentData(tid, lang, ScenarioIndex), d)) :
             d \in Defects(ScenarioIndex)}

InitPlayback ==
    /\ talk_id \in TalkIds
    /\ language \in Languages
    /\ segments = <<>>
    /\ time = 0
    /\ op = "none"
    /\ result = None
    /\ readers = NoReaders
    /\ request = NoRequest
    /\ response = NoResponse
    /\ version = NoVersion
    /\ saved = NoSaved
    /\ run = NoRun
    /\ \/ store = NoStore
       \/ store = [exists |-> TRUE, talks |-> <<>>]
       \/ store = [exists |-> TRUE, talks |-> (talk_id :> <<>>)]
       \/ \E dir \in LangDirNames :
            \E txt \in {<<>>, <<"Hello world">>, <<Undecodable>>} :
              \E mp3 \in {<<>>, <<"talk.mp3">>} :
                \E file \in PlaybackAlignmentFiles(talk_id, language) :
                  store = [exists |-> TRUE,
                           talks |-> (talk_id :> (dir :> LangDir(txt, mp3, file)))]

\* get_audio has called get_version and not yet tested audio_path.exists().
AudioPending ==
    request.endpoint = "audio" /\ response = NoResponse /\ version.kind = "found"

\* op is the last method of a repository that the last handler called,
\* "none" when it called none.
PlaybackFrame ==
    UNCHANGED <<talk_id, language, segments, time, result, readers, saved, run>>

\* Variant of the first half of get_audio that reports a missing version
\* as a server error.
GetAudioLookupMissingIsError ==
    /\ ~AudioPending
    /\ \E tid \in PlaybackTalkIds : \E code \in LanguageCodes :
         LET lang == from_code(code)
             v == IF lang.ok THEN get_version(store, tid, lang.value) ELSE NoVersion
         IN  /\ request' = [endpoint |-> "audio", talk_id |-> tid, language |-> code]
             /\ version' = v
             /\ op' = IF lang.ok THEN "get_version" ELSE "none"
             /\ response' =
                  IF ~lang.ok THEN HTTPException(400, "Unknown language code")
                  ELSE IF v.kind = "raised" THEN InternalServerError
                  ELSE IF v.kind = "none"
                       THEN HTTPException(500, "Talk not found in language")
                  ELSE NoResponse
    /\ UNCHANGED store
    /\ PlaybackFrame

\* get_audio up to the call of get_version: 400 for an unknown language
\* code, 404 when there is no version.
GetAudioLookup ==
    /\ ~AudioPending
    /\ \E tid \in PlaybackTalkIds : \E code \in LanguageCodes :
         LET lang == from_code(code)
             v == IF lang.ok THEN get_version(store, tid, lang.value) ELSE NoVersion
         IN  /\ request' = [endpoint |-> "audio", talk_id |-> tid, language |-> code]
             /\ version' = v
             /\ op' = IF lang.ok THEN "get_version" ELSE "none"
             /\ response' =
                  IF ~lang.ok THEN HTTPException(400, "Unknown language code")
                  ELSE IF v.kind = "raised" THEN InternalServerError
                  ELSE IF v.kind = "none"
                       THEN HTTPException(404, "Talk not found in language")
                  ELSE NoResponse
    /\ UNCHANGED store
    /\ PlaybackFrame

\* get_audio from audio_path.exists() on.
GetAudioRespond ==
    /\ AudioPending
    /\ response' =
         IF ~PathExists(store, version.audio_path)
         THEN HTTPException(500, "Audio file missing from disk")
         ELSE FileResponse(version.audio_path, request.talk_id, request.language)
    /\ UNCHANGED <<store, request, version, op>>
    /\ PlaybackFrame

\* The environment removes the audio file while get_audio is between its
\* two steps.
RemoveAudio ==
    /\ AudioPending
    /\ PathExists(store, version.audio_path)
    /\ store' = [store EXCEPT
                    !.talks[version.audio_path.talk_id][version.audio_path.dir].mp3 = <<>>]
    /\ UNCHANGED <<request, response, version, op>>
    /\ PlaybackFrame

\* GET /playback/text/{talk_id}/{language}
GetText ==
    /\ ~AudioPending
    /\ \E tid \in PlaybackTalkIds : \E code \in LanguageCodes :
         /\ request' = [endpoint |-> "text", talk_id |-> tid, language |-> code]
         /\ response' = playback_get_text(store, tid, code)
         /\ op' = IF ~from_code(code).ok THEN "none"
                  ELSE IF get_version(store, tid, from_code(code).value).kind = "found"
                       THEN "has_alignment"
                  ELSE "get_version"
    /\ version' = NoVersion
    /\ UNCHANGED store
    /\ PlaybackFrame

\* GET /playback/alignment/{talk_id}/{language}
GetAlignment ==
    /\ ~AudioPending
    /\ \E tid \in PlaybackTalkIds : \E code \in LanguageCodes :
         /\ request' = [endpoint |-> "alignment", talk_id |-> tid, language |-> code]
         /\ response' = playback_get_alignment(store, tid, code)
         /\ op' = IF from_code(code).ok THEN "get_alignment" ELSE "none"
    /\ version' = NoVersion
    /\ UNCHANGED store
    /\ PlaybackFrame

\* Variant of health_check that looks at the data directory.
HealthCheckOfStore ==
    /\ ~AudioPending
    /\ request' = [endpoint |-> "health", talk_id |-> "", language |-> ""]
    /\ response' = [status |-> IF store.exists THEN 200 ELSE 503,
                    body |-> [status |-> IF store.exists THEN "healthy" ELSE "unhealthy"]]
    /\ op' = "none"
    /\ version' = NoVersion
    /\ UNCHANGED store
    /\ PlaybackFrame

\* main.health_check: GET /health
HealthCheck ==
    /\ ~AudioPending
    /\ request' = [endpoint |-> "health", talk_id |-> "", language |-> ""]
    /\ response' = [status |-> 200, body |-> [status |-> "healthy"]]
    /\ op' = "none"
    /\ version' = NoVersion
    /\ UNCHANGED store
    /\ PlaybackFrame

NextPlayback ==
    \/ GetAudioLookup
    \/ GetAudioRespond
    \/ RemoveAudio
    \/ GetText
    \/ GetAlignment
    \/ HealthCheck

SpecPlayback == InitPlayback /\ [][NextPlayback]_vars

-----------------------------------------------------------------------------
(* Vocabulary of the properties of the playback endpoints. *)

\* The language directory has a text file and an audio file.
VersionOnDisk(st, tid, dir) ==
    /\ st.exists
    /\ tid \in DOMAIN st.talks
    /\ dir \in DOMAIN st.talks[tid]
    /\ st.talks[tid][dir].txt # <<>>
    /\ st.talks[tid][dir].mp3 # <<>>

AudioResponded == request.endpoint = "audio" /\ response # NoResponse

AudioLookupStep ==
    (~AudioPending /\ request'.endpoint = "audio") =>
        LET lang == from_code(request'.language)
        IN  IF ~lang.ok THEN response'.status = 400
            ELSE IF ~VersionOnDisk(store, request'.talk_id, lang.value)
                 THEN response'.status = 404
            ELSE IF store.talks[request'.talk_id][lang.value].txt[1] = Undecodable
                 THEN response'.status = 500
            ELSE response' = NoResponse /\ version'.kind = "found"

\* A step of get_audio from audio_path.exists() on, and what it must answer.
AudioRespondStep ==
    (AudioPending /\ response' # NoResponse) =>
        IF VersionOnDisk(store, request.talk_id, from_code(request.language).value)
        THEN /\ response'.status = 200
             /\ response'.body.path =
                    Path(request.talk_id, from_code(request.language).value, ".mp3")
        ELSE response'.status = 500

C18_AlignmentMapping ==
    (request.endpoint = "alignment" /\ from_code(request.language).ok) =>
        LET r == get_alignment(store, request.talk_id, from_code(request.language).value)
        IN  /\ response.status = 404 <=> r.kind = "none"
            /\ r.kind = "alignment" =>
                 /\ response.status = 200
                 /\ response.body.talk_id = request.talk_id
                 /\ response.body.language = request.language
                 /\ DOMAIN response.body.segments = DOMAIN r.segments
                 /\ \A i \in DOMAIN r.segments :
                      LET seg == r.segments[i]
                          out == response.body.segments[i]
                      IN  /\ out.segment_id = seg.segment_id
                          /\ out.text = seg.text
                          /\ out.start_time = seg.start_time
                          /\ out.end_time = seg.end_time
                          /\ DOMAIN out.words = DOMAIN seg.words
                          /\ \A j \in DOMAIN seg.words :
                               /\ out.words[j].word = seg.words[j].word
                               /\ out.words[j].start_time = seg.words[j].start_time
                               /\ out.words[j].end_time = seg.words[j].end_time
                               /\ out.words[j].confidence = seg.words[j].confidence

\* An alignment of two segments, the first with two words, was served.
C18_Witness ==
    /\ request.endpoint = "alignment"
    /\ response.status = 200
    /\ Len(response.body.segments) = 2
    /\ Len(response.body.segments[1].words) = 2
    /\ response.body.segments[1].words[2].confidence = 95

\* C19: for a (talk_id, language) with an existing version, has_alignment is
\* true in the text response exactly when GET /playback/alignment for the
\* same (talk_id, language) on the same store returns 200 rather than 404.
C19_HasAlignmentAgrees ==
    (request.endpoint = "text" /\ response.status = 200) =>
        (response.body.has_alignment <=>
            playback_get_alignment(store, request.talk_id, request.language).status = 200)

-----------------------------------------------------------------------------
(* FileTalkRepository.get_all and what it calls.  A call that can raise    *)
(* gives Value(v) or Raises.                                               *)

Value(v) == [ok |-> TRUE, value |-> v]

Raises == [ok |-> FALSE, value |-> <<>>]

\* datetime(year, month, 1), and datetime.now() on the clock of the model.
FirstOfMonth(year, month) == [year |-> year, month |-> month, now |-> FALSE]

Now == [year |-> 2026, month |-> 11, now |-> TRUE]

\* a < b on datetimes: a call of now() in a month is later than the first
\* of that month.
DateBefore(a, b) ==
    \/ a.year < b.year
    \/ a.year = b.year /\ a.month < b.month
    \/ a.year = b.year /\ a.month = b.month /\ ~a.now /\ b.now

\* re.match(r"(\d{4})-(\d{2})", dir_name)
DateMatch(cs) ==
    /\ Len(cs) >= 7
    /\ \A k \in {1, 2, 3, 4, 6, 7} : IsDigit(cs[k])
    /\ cs[5] = "-"

\* int(date_match.group(1))
YearOf(cs) ==
    1000 * DigitValue(cs[1]) + 100 * DigitValue(cs[2])
        + 10 * DigitValue(cs[3]) + DigitValue(cs[4])

\* int(date_match.group(2))
MonthOf(cs) == 10 * DigitValue(cs[6]) + DigitValue(cs[7])

\* The position of the last "-" of the name, 0 when it has none.
LastDash(cs) ==
    IF \E k \in DOMAIN cs : cs[k] = "-"
    THEN CHOOSE k \in DOMAIN cs :
            cs[k] = "-" /\ \A m \in DOMAIN cs : cs[m] = "-" => m <= k
    ELSE 0

\* re.search(r"-([a-z]+)$", dir_name)
SpeakerMatch(cs) ==
    /\ LastDash(cs) > 0
    /\ LastDash(cs) < Len(cs)
    /\ \A k \in (LastDash(cs) + 1)..Len(cs) : IsLower(cs[k])

\* FileTalkRepository._extract_title_from_text: the texts of the model have
\* one line, so lines[1:10] is empty, and a text that is not UTF-8 raises
\* inside the try: None (the empty string here) in each case.
extract_title_from_text(st, tid, lang) ==
    IF find_file(st, tid, lang, ".txt") = NoPath THEN <<>>
    ELSE IF st.talks[tid][lang].txt[1] = Undecodable THEN <<>>
    ELSE <<>>

\* FileTalkRepository._extract_metadata, what it derives from dir_name
\* alone; datetime(year, month, 1) raises ValueError unless
\* 1 <= year <= 9999 and 1 <= month <= 12.
NameMetadata(cs) ==
    IF DateMatch(cs) /\ ~(YearOf(cs) \in 1..9999 /\ MonthOf(cs) \in 1..12)
    THEN Raises
    ELSE Value(
        [title |-> str_title(ReplaceDashes(cs)),
         speaker |->
             IF SpeakerMatch(cs)
             THEN str_title(SubSeq(cs, LastDash(cs) + 1, Len(cs)))
             ELSE <<"Unknown Speaker">>,
         date |-> IF DateMatch(cs) THEN FirstOfMonth(YearOf(cs), MonthOf(cs)) ELSE Now,
         conference |->
             IF ~DateMatch(cs) THEN <<"General Conference">>
             ELSE IF MonthOf(cs) = 4
                  THEN <<"April", YearOf(cs), "General Conference">>
             ELSE IF MonthOf(cs) = 10
                  THEN <<"October", YearOf(cs), "General Conference">>
             ELSE <<YearOf(cs), "General Conference">>])

\* NameMetadata of each name of the model, computed once.
NameMetadataOf == [name \in DOMAIN Spelling |-> NameMetadata(Spelling[name])]

\* FileTalkRepository._extract_metadata: the title is that of the text file
\* if it has one.
extract_metadata(st, dir_name, primary_lang) ==
    LET metadata == NameMetadataOf[dir_name]
        title == extract_title_from_text(st, dir_name, primary_lang)
    IN  IF ~metadata.ok \/ title = <<>> THEN metadata
        ELSE Value([metadata.value EXCEPT !.title = title])

\* The sequences that list the elements of a set once each: the orders in
\* which Path.iterdir can yield the entries of a directory.
RECURSIVE IterDirOrders(_)
IterDirOrders(S) ==
    IF S = {} THEN {<<>>}
    ELSE UNION {{<<x>> \o rest : rest \in IterDirOrders(S \ {x})} : x \in S}

Reversed(s) == [k \in DOMAIN s |-> s[Len(s) + 1 - k]]

\* iterdir of a talk directory: its language directories in one order or in
\* the opposite one (all the orders there are of at most two directories).
IterLangDirs(st, tid, reversed) ==
    LET names == CHOOSE s \in IterDirOrders(DOMAIN st.talks[tid]) : TRUE
    IN  IF reversed THEN Reversed(names) ELSE names

\* FileTalkRepository.get_available_languages, the loop from entry k on.
RECURSIVE AvailableLanguages(_, _, _, _)
AvailableLanguages(st, tid, names, k) ==
    IF k > Len(names) THEN <<>>
    ELSE LET rest == AvailableLanguages(st, tid, names, k + 1)
         IN  IF /\ ~StartsWithDot(Spelling[names[k]])
                /\ from_code(names[k]).ok
                /\ find_file(st, tid, names[k], ".txt") # NoPath
                /\ find_file(st, tid, names[k], ".mp3") # NoPath
             THEN <<from_code(names[k]).value>> \o rest
             ELSE rest

\* FileTalkRepository.get_available_languages
get_available_languages(st, tid, reversed) ==
    IF ~TalkDirExists(st, tid) THEN <<>>
    ELSE AvailableLanguages(st, tid, IterLangDirs(st, tid, reversed), 1)

NoTalk == [kind |-> "none"]

\* FileTalkRepository._load_talk: NoTalk (None), the Talk, or "raised".
load_talk(st, dir_name, reversed) ==
    LET available_languages == get_available_languages(st, dir_name, reversed)
        metadata == extract_metadata(st, dir_name, available_languages[1])
    IN  IF available_languages = <<>> THEN NoTalk
        ELSE IF ~metadata.ok THEN [kind |-> "raised"]
        ELSE [kind |-> "talk", id |-> dir_name,
              title |-> metadata.value.title,
              speaker |-> metadata.value.speaker,
              date |-> metadata.value.date,
              conference |-> metadata.value.conference,
              available_languages |-> available_languages]

\* Variant of the sort that leaves the talks as the directory listed them.
SortedAsListed(ts) == ts

\* sorted(talks, key=lambda t: t.date, reverse=True), which is stable: a
\* talk goes behind the talks before it that are not older.
InsertByDate(sorted, t) ==
    LET k == Cardinality({i \in DOMAIN sorted : ~DateBefore(sorted[i].date, t.date)})
    IN  SubSeq(sorted, 1, k) \o <<t>> \o SubSeq(sorted, k + 1, Len(sorted))

RECURSIVE SortedNewestFirst(_)
SortedNewestFirst(ts) ==
    IF ts = <<>> THEN <<>>
    ELSE InsertByDate(SortedNewestFirst(SubSeq(ts, 1, Len(ts) - 1)), ts[Len(ts)])

\* FileTalkRepository.get_all, the loop over iterdir() from entry k on, with
\* the talks appended so far.
RECURSIVE LoadTalks(_, _, _, _, _)
LoadTalks(st, names, reversed, k, talks) ==
    IF k > Len(names) THEN Value(talks)
    ELSE IF StartsWithDot(Spelling[names[k]])
         THEN LoadTalks(st, names, reversed, k + 1, talks)
    ELSE LET talk == load_talk(st, names[k], reversed)
         IN  IF talk.kind = "raised" THEN Raises
             ELSE IF talk.kind = "none"
                  THEN LoadTalks(st, names, reversed, k + 1, talks)
             ELSE LoadTalks(st, names, reversed, k + 1, Append(talks, talk))

\* FileTalkRepository.get_all with the talk directories listed in the order
\* names.
get_all(st, names, reversed) ==
    IF ~st.exists THEN Value(<<>>)
    ELSE LET talks == LoadTalks(st, names, reversed, 1, <<>>)
         IN  IF ~talks.ok THEN Raises ELSE Value(SortedNewestFirst(talks.value))

\* talk.date.isoformat()
isoformat(date) ==
    [year |-> date.year, month |-> date.month, first_of_month |-> ~date.now]

\* talks.TalkResponse of a Talk.
TalkResponse(talk) ==
    [id |-> talk.id, title |-> talk.title, speaker |-> talk.speaker,
     date |-> isoformat(talk.date), conference |-> talk.conference,
     available_languages |-> talk.available_languages]

\* talks.list_talks: the response to GET /api/v1/talks.
list_talks(st, names, reversed) ==
    LET talks == get_all(st, names, reversed)
    IN  IF ~talks.ok THEN InternalServerError
        ELSE [status |-> 200,
              body |-> [talks |-> [k \in DOMAIN talks.value |->
                                      TalkResponse(talks.value[k])]]]

-----------------------------------------------------------------------------
(* GET /api/v1/talks on the talks directories of the model: no directory,  *)
(* or any of the talk directories below, each with its language            *)
(* directories in one of four shapes.                                      *)

TalkDirNames ==
    {"2025-10-58-oaks", "2024-04-12-holland", "2025-13-01-smith", ".git", "notes"}

CompleteLangDir == LangDir(<<"Hello world">>, <<"talk.mp3">>, AbsentFile)

LangDirShapes ==
    { "eng" :> CompleteLangDir,
      "eng" :> LangDir(<<"Hello world">>, <<>>, AbsentFile),
      "xyz" :> CompleteLangDir,
      ("eng" :> CompleteLangDir) @@ ("spa" :> CompleteLangDir) }

InitTalks ==
    /\ talk_id \in TalkIds
    /\ language \in Languages
    /\ segments = <<>>
    /\ time = 0
    /\ op = "none"
    /\ result = None
    /\ readers = NoReaders
    /\ request = NoRequest
    /\ response = NoResponse
    /\ version = NoVersion
    /\ saved = NoSaved
    /\ run = NoRun
    /\ \/ store = NoStore
       \/ \E present \in SUBSET TalkDirNames :
            \E dirs \in [present -> LangDirShapes] :
               store = [exists |-> TRUE, talks |-> dirs]

\* GET /api/v1/talks
ListTalks ==
    /\ \E names \in IterDirOrders(DOMAIN store.talks) : \E reversed \in BOOLEAN :
          response' = list_talks(store, names, reversed)
    /\ request' = [endpoint |-> "talks", talk_id |-> "", language |-> ""]
    /\ op' = "get_all"
    /\ UNCHANGED <<store, version>>
    /\ PlaybackFrame

NextTalks == ListTalks

SpecTalks == InitTalks /\ [][NextTalks]_vars

\* C20: GET /api/v1/talks returns status 200 with a body whose talks field
\* is a list for every state of the talks directory: missing, empty, with
\* hidden directories, with directories of unknown language codes, or with
\* talk directories of arbitrary names (also names whose YYYY-MM prefix is
\* not a valid month).
C20_ListAlwaysOk ==
    request.endpoint = "talks" =>
        /\ response.status = 200
        /\ DOMAIN response.body.talks = 1..Len(response.body.talks)

-----------------------------------------------------------------------------
(* Properties of the health endpoint and of the language check of the      *)
(* playback endpoints.                                                     *)

\* C21: GET /health returns status 200 with body {"status": "healthy"} in
\* every state of the data store and after any sequence of other requests.
C21_HealthAlways ==
    request.endpoint = "health" =>
        response = [status |-> 200, body |-> [status |-> "healthy"]]

\* /health was requested with the talks directory missing.
C21_Witness ==
    /\ request.endpoint = "health"
    /\ response.status = 200
    /\ ~store.exists

\* The code equals, case-insensitively, one of the Language values.
AcceptedCode(code) ==
    \E lang \in LanguageValues : Spelling[lang] = str_lower(Spelling[code])

\* The name of the language directory of an accepted code.
ResolvedDir(code) ==
    CHOOSE lang \in LanguageValues : Spelling[lang] = str_lower(Spelling[code])

\* C22: in each playback endpoint language validation comes first: a code
\* that does not equal, case-insensitively, a Language value yields 400
\* whether or not the talk exists and without any repository access; a code
\* that matches case-insensitively is accepted and resolved to the
\* lower-case language directory.
C22_LanguageFirst ==
    request.endpoint \in {"audio", "text", "alignment"} =>
        IF ~AcceptedCode(request.language)
        THEN /\ response.status = 400
             /\ op = "none"
             /\ version = NoVersion
        ELSE LET dir == ResolvedDir(request.language)
             IN  /\ response.status # 400
                 /\ op # "none"
                 /\ request.endpoint = "audio" =>
                       /\ version.kind = "none" =>
                             ~VersionOnDisk(store, request.talk_id, dir)
                       /\ version.kind = "found" =>
                             /\ version.language = dir
                             /\ version.audio_path = Path(request.talk_id, dir, ".mp3")
                 /\ request.endpoint = "text" =>
                       /\ response.status = 200 =>
                             /\ VersionOnDisk(store, request.talk_id, dir)
                             /\ response.body.text_content =
                                    store.talks[request.talk_id][dir].txt[1]
                       /\ response.status = 404 <=>
                             ~VersionOnDisk(store, request.talk_id, dir)
                 /\ request.endpoint = "alignment" =>
                       /\ response.status = 200 =>
                             AlignmentFile(store, request.talk_id, dir).kind = "json"
                       /\ AlignmentFile(store, request.talk_id, dir).kind = "absent" =>
                             response.status = 404

\* The text of a talk was served for the code ENG from the directory eng.
C22_Witness ==
    /\ request.endpoint = "text"
    /\ request.language = "ENG"
    /\ response.status = 200
    /\ "eng" \in DOMAIN store.talks[request.talk_id]

\* C29 (as stated): GET /playback/audio returns 500 only through a
\* concurrent change of the store: never when no file is removed between
\* get_version's directory scan and the audio_path.exists() check, and 500,
\* not 404, when the audio file is removed in that window.
C29_Original ==
    AudioResponded =>
        (response.status = 500 <=>
            version.kind = "found" /\ ~PathExists(store, version.audio_path))

-----------------------------------------------------------------------------
(* FileAlignmentRepository.save_alignment.  Alignments are saved for the   *)
(* pairs of SavePairs, in any order and any number of times, on a talks    *)
(* directory that is missing, empty, or holds one talk with text, audio    *)
(* and an alignment.json that is absent, unreadable or from an earlier     *)
(* run; saved remembers the segments last saved for each pair and whether  *)
(* the save replaced an earlier file.                                      *)

\* A talk in two languages and another talk.
SavePairs ==
    {<<"2025-10-58-oaks", "eng">>, <<"2025-10-58-oaks", "spa">>,
     <<"2024-04-12-holland", "eng">>}

\* The Alignments that are saved: of no segment, of one and of two.
SavedIndexes == {<<>>, <<ScenarioIndex[2]>>, ScenarioIndex}

NeverSaved == [kind |-> "never", segments |-> <<>>, replaced |-> FALSE]

\* Variant of the file content that keeps the segments of the file it
\* replaces in front of the new ones.
SavedFileMerging(st, tid, lang, segs) ==
    LET old == AlignmentFile(st, tid, lang)
        data == AlignmentData(tid, lang, segs)
    IN  IF old.kind = "json" /\ old.value.type = "object"
           /\ "segments" \in DOMAIN old.value.members
        THEN JsonObject([data EXCEPT !.segments = old.value.members.segments \o @])
        ELSE JsonObject(data)

\* save_alignment: the content of the file it writes, json.dumps(data).
SavedFile(st, tid, lang, segs) == JsonObject(AlignmentData(tid, lang, segs))

\* Variant of the write that makes the language directory anew.
WriteAlignmentFreshDir(st, tid, lang, file) ==
    LET langs == IF tid \in DOMAIN st.talks THEN st.talks[tid] ELSE <<>>
    IN  [exists |-> TRUE,
         talks |-> (tid :> ((lang :> LangDir(<<>>, <<>>, file)) @@ langs)) @@ st.talks]

\* save_alignment: alignment_path.parent.mkdir(parents=True, exist_ok=True)
\* and alignment_path.write_text(...): the missing directories are made,
\* and the file is created or replaced.
WriteAlignment(st, tid, lang, file) ==
    LET langs == IF tid \in DOMAIN st.talks THEN st.talks[tid] ELSE <<>>
        dir == IF lang \in DOMAIN langs
               THEN [langs[lang] EXCEPT !.alignment = file]
               ELSE LangDir(<<>>, <<>>, file)
    IN  [exists |-> TRUE,
         talks |-> (tid :> ((lang :> dir) @@ langs)) @@ st.talks]

InitSave ==
    /\ talk_id \in TalkIds
    /\ language \in Languages
    /\ segments = <<>>
    /\ time = 0
    /\ op = "none"
    /\ result = None
    /\ readers = NoReaders
    /\ request = NoRequest
    /\ response = NoResponse
    /\ version = NoVersion
    /\ saved = [pair \in SavePairs |-> NeverSaved]
    /\ run = NoRun
    /\ \/ store = NoStore
       \/ store = [exists |-> TRUE, talks |-> <<>>]
       \/ \E file \in {AbsentFile, InvalidJson,
                        JsonObject(AlignmentData(talk_id, language, ScenarioIndex))} :
             store = OneTalkStore(talk_id, language, file)

\* FileAlignmentRepository.save_alignment(Alignment(tid, lang, segs))
SaveAlignment ==
    /\ \E pair \in SavePairs : \E segs \in SavedIndexes :
         /\ talk_id' = pair[1]
         /\ language' = pair[2]
         /\ segments' = segs
         /\ store' = WriteAlignment(store, pair[1], pair[2],
                                    SavedFile(store, pair[1], pair[2], segs))
         /\ saved' = [saved EXCEPT ![pair] =
                         [kind |-> "saved", segments |-> segs,
                          replaced |-> has_alignment(store, pair[1], pair[2])]]
    /\ op' = "save_alignment"
    /\ result' = None
    /\ UNCHANGED <<time, readers, request, response, version, run>>

\* FileAlignmentRepository.get_alignment(tid, lang); the Alignment it
\* returns becomes the index of the state.
LoadAlignment ==
    /\ \E pair \in SavePairs :
         LET r == get_alignment(store, pair[1], pair[2])
         IN  /\ talk_id' = pair[1]
             /\ language' = pair[2]
             /\ result' = [kind |-> r.kind, pos |-> 0, sub |-> 0]
             /\ segments' = r.segments
    /\ op' = "get_alignment"
    /\ UNCHANGED <<time, readers, store, request, response, version, saved, run>>

NextSave == SaveAlignment \/ LoadAlignment

SpecSave == InitSave /\ [][NextSave]_vars

\* C23: after any sequence of save_alignment calls, get_alignment(talk_id,
\* language) returns an Alignment whose segments and words equal, field for
\* field and in order, those of the last alignment saved for that (talk_id,
\* language), with nothing left over from earlier saves.
C23_LastSaveWins ==
    (op = "get_alignment" /\ saved[<<talk_id, language>>].kind = "saved") =>
        LET last == saved[<<talk_id, language>>].segments
        IN  /\ result.kind = "alignment"
            /\ Len(segments) = Len(last)
            /\ \A i \in DOMAIN last :
                 /\ segments[i].segment_id = last[i].segment_id
                 /\ segments[i].text = last[i].text
                 /\ segments[i].start_time = last[i].start_time
                 /\ segments[i].end_time = last[i].end_time
                 /\ Len(segments[i].words) = Len(last[i].words)
                 /\ \A j \in DOMAIN last[i].words :
                      /\ segments[i].words[j].word = last[i].words[j].word
                      /\ segments[i].words[j].start_time = last[i].words[j].start_time
                      /\ segments[i].words[j].end_time = last[i].words[j].end_time
                      /\ segments[i].words[j].confidence = last[i].words[j].confidence

\* An alignment of one segment was loaded after it had replaced an earlier
\* file, while another pair holds the two segments of the scenario.
C23_Witness ==
    /\ op = "get_alignment"
    /\ result.kind = "alignment"
    /\ saved[<<talk_id, language>>].kind = "saved"
    /\ saved[<<talk_id, language>>].replaced
    /\ Len(segments) = 1
    /\ \E pair \in SavePairs :
          pair # <<talk_id, language>> /\ saved[pair].segments = ScenarioIndex

\* What get_version returns of the text and the audio of a pair.
TextAndAudio(st, pair) ==
    LET v == get_version(st, pair[1], pair[2])
    IN  IF v.kind = "found" THEN <<v.kind, v.text_content, v.audio_path>>
        ELSE <<v.kind>>

\* C24: save_alignment for one (talk_id, language) leaves everything else
\* unchanged: get_alignment and has_alignment for every other pair, and the
\* text content and audio path returned by get_version for every pair
\* including the saved one, are the same before and after the save.
C24_SaveFrame ==
    [][op' = "save_alignment" =>
          \A pair \in SavePairs :
             /\ TextAndAudio(store', pair) = TextAndAudio(store, pair)
             /\ pair # <<talk_id', language'>> =>
                   /\ get_alignment(store', pair[1], pair[2])
                         = get_alignment(store, pair[1], pair[2])
                   /\ has_alignment(store', pair[1], pair[2])
                         = has_alignment(store, pair[1], pair[2])]_vars

\* An alignment was saved for a pair that has text and audio, while another
\* pair holds an alignment.
C24_Witness ==
    /\ op = "save_alignment"
    /\ VersionOnDisk(store, talk_id, language)
    /\ \E pair \in SavePairs :
          pair # <<talk_id, language>> /\ saved[pair].kind = "saved"
                                      /\ saved[pair].segments # <<>>

-----------------------------------------------------------------------------
(* Listing and lookup of talks: GET /api/v1/talks and GET                  *)
(* /api/v1/talks/{talk_id} on talks directories whose talk directories     *)
(* have dated, undated and hidden names, and whose language directories    *)
(* are named by a code in lower or in upper case, or by no code.           *)

\* FileTalkRepository.get_by_id
get_by_id(st, tid, reversed) ==
    IF ~TalkDirExists(st, tid) THEN NoTalk ELSE load_talk(st, tid, reversed)

\* talks.get_talk: the response to GET /api/v1/talks/{talk_id}.
get_talk(st, tid, reversed) ==
    LET talk == get_by_id(st, tid, reversed)
    IN  IF talk.kind = "raised" THEN InternalServerError
        ELSE IF talk.kind = "none" THEN HTTPException(404, "Talk not found")
        ELSE [status |-> 200, body |-> TalkResponse(talk)]

CatalogDirNames == {"2025-10-58-oaks", "2024-04-12-holland", ".git", "notes"}

\* The ids that are looked up: those of the directories and one of no
\* directory.
CatalogTalkIds == CatalogDirNames \cup {"2025-13-01-smith"}

CatalogLangDirShapes ==
    { "eng" :> CompleteLangDir,
      "xyz" :> CompleteLangDir,
      "ENG" :> CompleteLangDir,
      ("eng" :> CompleteLangDir) @@ ("ENG" :> CompleteLangDir) }

InitCatalog ==
    /\ talk_id \in TalkIds
    /\ language \in Languages
    /\ segments = <<>>
    /\ time = 0
    /\ op = "none"
    /\ result = None
    /\ readers = NoReaders
    /\ request = NoRequest
    /\ response = NoResponse
    /\ version = NoVersion
    /\ saved = NoSaved
    /\ run = NoRun
    /\ \/ store = NoStore
       \/ \E present \in SUBSET CatalogDirNames :
            \E dirs \in [present -> CatalogLangDirShapes] :
               store = [exists |-> TRUE, talks |-> dirs]

\* GET /api/v1/talks/{talk_id}
GetTalk ==
    /\ \E tid \in CatalogTalkIds : \E reversed \in BOOLEAN :
         /\ request' = [endpoint |-> "talk", talk_id |-> tid, language |-> ""]
         /\ response' = get_talk(store, tid, reversed)
    /\ op' = "get_by_id"
    /\ UNCHANGED <<store, version>>
    /\ PlaybackFrame

NextCatalog == ListTalks \/ GetTalk

SpecCatalog == InitCatalog /\ [][NextCatalog]_vars

\* a < b on the dates of two TalkResponses.
IsoBefore(a, b) ==
    \/ a.year < b.year
    \/ a.year = b.year /\ a.month < b.month
    \/ a.year = b.year /\ a.month = b.month /\ a.first_of_month /\ ~b.first_of_month

\* C25: get_all returns the talks ordered by date, newest first, contains no
\* talk from a directory whose name starts with ".", and every Talk it or
\* get_by_id returns has at least one available language.
C25_NewestFirst ==
    /\ (request.endpoint = "talks" /\ response.status = 200) =>
          /\ \A k \in 1..(Len(response.body.talks) - 1) :
                ~IsoBefore(response.body.talks[k].date, response.body.talks[k + 1].date)
          /\ \A k \in DOMAIN response.body.talks :
                /\ Spelling[response.body.talks[k].id][1] # "."
                /\ Len(response.body.talks[k].available_languages) >= 1
    /\ (request.endpoint = "talk" /\ response.status = 200) =>
          Len(response.body.available_languages) >= 1

\* Three talks were listed, the undated one first and the oldest last,
\* from a directory that also holds a hidden directory with a language.
C25_Witness ==
    /\ request.endpoint = "talks"
    /\ response.status = 200
    /\ Len(response.body.talks) = 3
    /\ response.body.talks[1].id = "notes"
    /\ response.body.talks[3].id = "2024-04-12-holland"
    /\ ".git" \in DOMAIN store.talks
    /\ "eng" \in DOMAIN store.talks[".git"]

\* The ids that GET /api/v1/talks lists on the store of the state.
ListedIds ==
    LET names == CHOOSE order \in IterDirOrders(DOMAIN store.talks) : TRUE
        listing == list_talks(store, names, FALSE)
    IN  IF listing.status # 200 THEN {}
        ELSE {listing.body.talks[k].id : k \in DOMAIN listing.body.talks}

\* C26: listing and lookup agree: on the same store GET /api/v1/talks/{id}
\* returns 200 exactly for the ids listed by GET /api/v1/talks.
C26_LookupAgreesWithListing ==
    request.endpoint = "talk" =>
        (response.status = 200 <=> request.talk_id \in ListedIds)

\* C27: every language that get_available_languages(talk_id) reports is
\* retrievable: on the same store get_version(talk_id, language) returns a
\* TalkVersion for each of them, also when the name of the language
\* directory differs in case from the language code.
C27_ReportedIsRetrievable ==
    (request.endpoint = "talk" /\ response.status = 200) =>
        \A k \in DOMAIN response.body.available_languages :
            get_version(store, request.talk_id,
                        response.body.available_languages[k]).kind = "found"

\* C28: the available_languages list of every Talk returned by get_all or
\* get_by_id contains each Language at most once.
C28_NoDuplicateLanguage ==
    /\ (request.endpoint = "talk" /\ response.status = 200) =>
          \A j, k \in DOMAIN response.body.available_languages :
              response.body.available_languages[j] = response.body.available_languages[k]
                  => j = k
    /\ (request.endpoint = "talks" /\ response.status = 200) =>
          \A t \in DOMAIN response.body.talks :
              \A j, k \in DOMAIN response.body.talks[t].available_languages :
                  response.body.talks[t].available_languages[j]
                      = response.body.talks[t].available_languages[k] => j = k

-----------------------------------------------------------------------------
(* The alignment scripts: scripts/generate_alignment.py and                *)
(* scripts/transcribe_openai.py.  A run takes a talk id, the languages to  *)
(* process and --force; whether the transcription packages (and the API    *)
(* key) are there, and for which languages the transcription raises, is    *)
(* the environment's choice.  run keeps the arguments of the last run, its *)
(* exit code, its success_count and the languages it wrote.                *)

ScriptNames == {"generate_alignment", "transcribe_openai"}

ScriptTalkId == "2025-10-58-oaks"

\* The languages arguments of the runs.
ScriptLanguages == {<<"eng">>, <<"spa">>, <<"eng", "spa">>, <<"eng", "eng">>}

\* The segments a transcription gives.
TranscribedIndex == <<ScenarioIndex[2]>>

\* The alignment.json a repository saved before the runs.
ExistingFile(lang) == JsonObject(AlignmentData(ScriptTalkId, lang, ScenarioIndex))

\* json.dump(alignment, f, ...) of the dict the scripts build: talk_id,
\* language and segments.
ScriptFile(tid, lang, segs) ==
    JsonObject([talk_id |-> tid, language |-> lang,
                segments |-> AlignmentData(tid, lang, segs).segments])

\* find_audio_file: the first *.mp3 of the directory, or None.
find_audio_file(st, tid, dir) ==
    IF st.talks[tid][dir].mp3 = <<>> THEN NoPath ELSE Path(tid, dir, ".mp3")

\* Variant of the step that does not look for an existing alignment.json.
process_talk_overwriting(st, tid, lang, force, installed, raises) ==
    IF ~LangDirExists(st, tid, lang) THEN [store |-> st, outcome |-> "skipped"]
    ELSE IF find_audio_file(st, tid, lang) = NoPath THEN [store |-> st, outcome |-> "skipped"]
    ELSE IF ~installed THEN [store |-> st, outcome |-> "exit"]
    ELSE IF lang \in raises THEN [store |-> st, outcome |-> "failed"]
    ELSE [store |-> [st EXCEPT !.talks[tid][lang].alignment =
                                  ScriptFile(tid, lang, TranscribedIndex)],
          outcome |-> "written"]

\* One language of a run: transcribe_openai.process_talk, and the body of
\* the loop of generate_alignment.main.  outcome is "skipped" (continue or
\* return False before the transcription), "exit" (sys.exit(1) of the
\* transcription: a package or the API key is missing), "failed" (an
\* exception of the transcription, caught) or "written".
process_talk(st, tid, lang, force, installed, raises) ==
    IF ~LangDirExists(st, tid, lang) THEN [store |-> st, outcome |-> "skipped"]
    ELSE IF has_alignment(st, tid, lang) /\ ~force THEN [store |-> st, outcome |-> "skipped"]
    ELSE IF find_audio_file(st, tid, lang) = NoPath THEN [store |-> st, outcome |-> "skipped"]
    ELSE IF ~installed THEN [store |-> st, outcome |-> "exit"]
    ELSE IF lang \in raises THEN [store |-> st, outcome |-> "failed"]
    ELSE [store |-> [st EXCEPT !.talks[tid][lang].alignment =
                                  ScriptFile(tid, lang, TranscribedIndex)],
          outcome |-> "written"]

\* The loop over args.languages from its k-th language on.
RECURSIVE ProcessLanguages(_, _, _, _, _)
ProcessLanguages(args, k, st, success_count, written) ==
    IF k > Len(args.languages)
    THEN [store |-> st, exited |-> FALSE, success_count |-> success_count,
          written |-> written]
    ELSE LET r == process_talk(st, args.talk_id, args.languages[k], args.force,
                               args.installed, args.raises)
         IN  IF r.outcome = "exit"
             THEN [store |-> r.store, exited |-> TRUE,
                   success_count |-> success_count, written |-> written]
             ELSE IF r.outcome = "written"
             THEN ProcessLanguages(args, k + 1, r.store, success_count + 1,
                                   written \cup {args.languages[k]})
             ELSE ProcessLanguages(args, k + 1, r.store, success_count, written)

\* main of either script: the store after the run and the exit code.
main(st, args) ==
    IF args.script = "generate_alignment" /\ ~TalkDirExists(st, args.talk_id)
    THEN [store |-> st, exit_code |-> 1, success_count |-> 0, written |-> {}]
    ELSE LET r == ProcessLanguages(args, 1, st, 0, {})
         IN  [store |-> r.store,
              exit_code |-> IF r.exited THEN 1
                            ELSE IF r.success_count > 0 THEN 0 ELSE 1,
              success_count |-> r.success_count,
              written |-> r.written]

\* A language directory of the talk before the runs: without audio and
\* with an alignment.json, or with audio and without alignment.json, with
\* one that is not JSON, or with one a repository saved.
ScriptLangDirs(lang) ==
    { LangDir(<<"Hello world">>, <<>>, ExistingFile(lang)),
      LangDir(<<"Hello world">>, <<"talk.mp3">>, AbsentFile),
      LangDir(<<"Hello world">>, <<"talk.mp3">>, InvalidJson),
      LangDir(<<"Hello world">>, <<"talk.mp3">>, ExistingFile(lang)) }

InitScripts ==
    /\ talk_id \in TalkIds
    /\ language \in Languages
    /\ segments = <<>>
    /\ time = 0
    /\ op = "none"
    /\ result = None
    /\ readers = NoReaders
    /\ request = NoRequest
    /\ response = NoResponse
    /\ version = NoVersion
    /\ saved = NoSaved
    /\ run = NoRun
    /\ \/ store = NoStore
       \/ store = [exists |-> TRUE, talks |-> <<>>]
       \/ \E present \in SUBSET {"eng", "spa"} :
            \E dirs \in [present -> ScriptLangDirs("eng") \cup ScriptLangDirs("spa")] :
               /\ \A lang \in present : dirs[lang] \in ScriptLangDirs(lang)
               /\ store = [exists |-> TRUE, talks |-> (ScriptTalkId :> dirs)]

\* python scripts/<script>.py <talk_id> <languages...> [--force]
RunScript ==
    /\ \E script \in ScriptNames : \E languages \in ScriptLanguages :
       \E force \in BOOLEAN : \E installed \in BOOLEAN :
       \E raises \in SUBSET {"eng", "spa"} :
         LET args == [script |-> script, talk_id |-> ScriptTalkId,
                      languages |-> languages, force |-> force,
                      installed |-> installed, raises |-> raises]
             r == main(store, args)
         IN  /\ store' = r.store
             /\ run' = [script |-> script, talk_id |-> ScriptTalkId,
                        languages |-> languages, force |-> force,
                        exit_code |-> r.exit_code,
                        success_count |-> r.success_count,
                        written |-> r.written]
    /\ op' = "main"
    /\ UNCHANGED <<talk_id, language, segments, time, result, readers,
                   request, response, version, saved>>

NextScripts == RunScript

SpecScripts == InitScripts /\ [][NextScripts]_vars

\* The alignment.json of a language directory, AbsentFile when the directory
\* is missing.
AlignmentFileOf(st, tid, lang) ==
    IF LangDirExists(st, tid, lang) THEN st.talks[tid][lang].alignment ELSE AbsentFile

\* C30: a run of an alignment script never overwrites an existing
\* alignment.json unless --force is given: for each requested language
\* whose alignment.json exists when force is false, the file is the same
\* after the run and the language is not among the successes; and the exit
\* code is 0 exactly when at least one language was written.
C30_NoOverwriteWithoutForce ==
    [][op' = "main" =>
        /\ \A k \in DOMAIN run'.languages :
              (has_alignment(store, run'.talk_id, run'.languages[k]) /\ ~run'.force) =>
                  /\ AlignmentFileOf(store', run'.talk_id, run'.languages[k])
                        = AlignmentFileOf(store, run'.talk_id, run'.languages[k])
                  /\ run'.languages[k] \notin run'.written
        /\ run'.exit_code = 0 <=> run'.written # {}
        /\ run'.success_count > 0 <=> run'.written # {}]_vars

\* A run without --force for eng and spa ended with exit code 0: it wrote
\* the alignment of spa and left the existing alignment.json of eng, which is
\* not what a script writes.
C30_Witness ==
    /\ op = "main"
    /\ ~run.force
    /\ run.languages = <<"eng", "spa">>
    /\ run.exit_code = 0
    /\ run.written = {"spa"}
    /\ AlignmentFileOf(store, ScriptTalkId, "eng") = InvalidJson
    /\ AlignmentFileOf(store, ScriptTalkId, "spa")
          = ScriptFile(ScriptTalkId, "spa", TranscribedIndex)
====
